---- MODULE Spec2Model ----
(***************************************************************************)
(* A model of the hazard-report store (src/lib/db.ts), its voting rules,   *)
(* its synchronisation with the remote database (sync module) and the      *)
(* proximity detector (useProximityAlerts). The asynchronous functions are *)
(* single steps, and the push, the merges and the cleared vote are also    *)
(* followed through their awaits, where other handlers run in between.     *)
(*                                                                         *)
(* A report row is a record holding every field of the Report interface.   *)
(* A field that a JavaScript object may lack (undefined) holds None, and   *)
(* Some(v) when it is set; clearedCount and resolved exist since schema    *)
(* version 1 and hold plain values.                                        *)
(***************************************************************************)
EXTENDS Integers, Sequences, FiniteSets, TLC

VARIABLES
    reports,    \* the Dexie table db.reports of the client: id -> row
    dbVersion,  \* schema version of the stored database
    now,        \* the client's clock, Date.now(), in milliseconds
    remote,     \* the Realtime Database documents under reports/: id -> document
    online,     \* navigator.onLine
    listening,  \* the onValue subscription of initializeSync is registered
    handlers,   \* the online and offline listeners of initializeSync are registered
    enabled,    \* the proximity alerts are switched on (useProximityAlertsToggle)
    suppressedIds,          \* the ids useSuppressedReports holds
    lastCheck,              \* lastCheckRef of useProximityAlerts
    previouslyInProximity,  \* previouslyInProximityRef: the in-range set
    hasTriggeredAlert,      \* hasTriggeredAlertRef: the latch
    userLocation,           \* state.userLocation: the last processed fix
    mounted,     \* the page (Home) is mounted
    watchIdRef,  \* watchIdRef of useProximityAlerts
    watches,     \* the geolocation watches registered with the browser
    pushTask,    \* a syncPendingToFirestore that is suspended at one of its awaits
    mergeTask,   \* a fullSync or a notification callback that is suspended
    castTasks,   \* the calls of incrementClearedCount: suspended or returned
    thanked      \* the votes handleCleared has thanked for: <<report, device>>

vars == <<reports, dbVersion, now, remote, online, listening, handlers,
          enabled, suppressedIds, lastCheck, previouslyInProximity, hasTriggeredAlert,
          userLocation, mounted, watchIdRef, watches,
          pushTask, mergeTask, castTasks, thanked>>

watchVars == <<mounted, watchIdRef, watches>>

taskVars == <<pushTask, mergeTask, castTasks, thanked>>

detectorVars ==
    <<enabled, suppressedIds, lastCheck, previouslyInProximity, hasTriggeredAlert,
      userLocation>>

\* the detector as the page mounts it
InitDetector ==
    /\ enabled = TRUE
    /\ suppressedIds = {}
    /\ lastCheck = 0
    /\ previouslyInProximity = {}
    /\ hasTriggeredAlert = FALSE
    /\ userLocation = <<>>

\* the page mounted with the alerts on: the watch effect has registered one
\* watch
InitWatch ==
    /\ mounted = TRUE
    /\ watchIdRef = <<1>>
    /\ watches = {1}

\* the calls of incrementClearedCount that are followed through their awaits
MaxCalls == 2
Calls == 1..MaxCalls

\* no task is under way
InitTasks ==
    /\ pushTask = <<>>
    /\ mergeTask = <<>>
    /\ castTasks = [k \in Calls |-> [pc |-> "idle"]]
    /\ thanked = {}

----------------------------------------------------------------------------
(* Bounds of the model.                                                    *)

MaxIds == 1
MaxDevices == 3
MaxStillThere == 2
MaxDays == 1
MaxJitter == 1
MaxV1Cleared == 1

Ids == 1..MaxIds
Devices == 1..MaxDevices

\* the ids where several reports are followed
MaxEngineIds == 2
EngineIds == 1..MaxEngineIds

\* the device id of the client whose store is followed (getOrCreateDeviceId),
\* and those of the other clients
LocalDevice == 1
PeerDevices == Devices \ {LocalDevice}

----------------------------------------------------------------------------
(* Program constants.                                                      *)

DayMs == 24 * 60 * 60 * 1000
SevenDaysMs == 7 * 24 * 60 * 60 * 1000
ClearedThreshold == 3
RebuttalThreshold == 2
CurrentVersion == 4

(* The instants the clock is observed at: the first one, and instants     *)
(* within a few milliseconds of whole days after it, so that two readings  *)
(* can be equal, less than a day apart, exactly a day apart and more than  *)
(* a day apart.                                                            *)
BaseTime == DayMs
TimePoints ==
    {BaseTime} \cup
    {BaseTime + k * DayMs + j : k \in 1..MaxDays, j \in (0 - MaxJitter)..MaxJitter}

----------------------------------------------------------------------------
(* JavaScript values.                                                      *)

None == <<>>
Some(v) == <<v>>

\* x ?? d
Nullish(x, d) == IF x = None THEN d ELSE x[1]

\* !x for an optional boolean: undefined is falsy
NotTruthy(x) == IF x = None THEN TRUE ELSE ~x[1]

\* x || 0 for an optional number, and the truthiness of an optional number
TruthyNum(x) == x # None /\ x[1] # 0

\* new Date(ms).toISOString(): the calendar day and the time of day
toISOString(ms) == <<ms \div DayMs, ms % DayMs>>

\* new Date(iso).getTime()
getTime(iso) == iso[1] * DayMs + iso[2]

\* { ...row, ...changes }; a change to None removes the property
Assign(row, changes) ==
    [f \in DOMAIN row |-> IF f \in DOMAIN changes THEN changes[f] ELSE row[f]]

----------------------------------------------------------------------------
(* The Dexie table.                                                        *)

tableGet(tbl, id) == IF id \in DOMAIN tbl THEN Some(tbl[id]) ELSE None

\* db.reports.update(id, changes): no row, no change
tableUpdate(tbl, id, changes) ==
    IF id \in DOMAIN tbl THEN [tbl EXCEPT ![id] = Assign(@, changes)] ELSE tbl

\* db.reports.put(row): insert or replace
tablePut(tbl, row) ==
    [i \in DOMAIN tbl \cup {row.id} |-> IF i = row.id THEN row ELSE tbl[i]]

\* db.reports.delete(id)
tableDelete(tbl, id) == [i \in DOMAIN tbl \ {id} |-> tbl[i]]

----------------------------------------------------------------------------
(* Rows.                                                                   *)

\* what the report form passes on: one location, one description, no photo
FormLat == 0
FormLng == 0
FormDesc == "glass"

\* a row as schema version 1 stored it
V1Row(id, clearedCount, resolved) ==
    [id |-> id, lat |-> FormLat, lng |-> FormLng, desc |-> FormDesc,
     photoBase64 |-> None, photoUrl |-> None,
     date |-> toISOString(BaseTime),
     clearedCount |-> clearedCount, resolved |-> resolved,
     stillThereCount |-> None, stillThereConfirmations |-> None,
     clearedConfirmations |-> None,
     syncStatus |-> None, lastModified |-> None, firebaseId |-> None,
     archived |-> None, archivedAt |-> None,
     flagged |-> None, noGlassFound |-> None]

\* the object handleSubmitReport builds
newReport(id, t) == [V1Row(id, 0, FALSE) EXCEPT !.date = toISOString(t)]

\* helpers reading a row the way the code does
clearedLedger(report) == Nullish(report.clearedConfirmations, <<>>)
stillThereLedger(report) == Nullish(report.stillThereConfirmations, <<>>)

----------------------------------------------------------------------------
(* Schema evolution: the upgrade functions of versions 2, 3 and 4.         *)

upgradeV2(report, t) ==
    Assign(report,
        [stillThereCount |-> Some(Nullish(report.stillThereCount, 0)),
         stillThereConfirmations |-> Some(Nullish(report.stillThereConfirmations, <<>>)),
         clearedConfirmations |-> Some(Nullish(report.clearedConfirmations, <<>>)),
         syncStatus |-> Some(Nullish(report.syncStatus, "pending")),
         lastModified |-> Some(Nullish(report.lastModified, t))])

\* an upgrade that writes the defaults over the values a row has
upgradeV3Overwriting(report) ==
    Assign(report, [archived |-> Some(FALSE), flagged |-> Some(FALSE)])

upgradeV3(report) ==
    Assign(report,
        [archived |-> Some(Nullish(report.archived, FALSE)),
         flagged |-> Some(Nullish(report.flagged, FALSE))])

upgradeV4(report) ==
    Assign(report, [noGlassFound |-> Some(Nullish(report.noGlassFound, FALSE))])

\* a row of a database stored at the given version, after the upgrades of
\* every later version, in their order
upgradedFrom(version, report, t) ==
    LET v2 == IF version < 2 THEN upgradeV2(report, t) ELSE report
        v3 == IF version < 3 THEN upgradeV3(v2) ELSE v2
    IN  IF version < 4 THEN upgradeV4(v3) ELSE v3

----------------------------------------------------------------------------
(* Report creation.                                                        *)

\* addReport: the row stored for the object the caller passes
fullReport(report, t) ==
    Assign(report,
        [stillThereCount |-> Some(0),
         stillThereConfirmations |-> Some(<<>>),
         clearedConfirmations |-> Some(<<>>),
         syncStatus |-> Some("pending"),
         lastModified |-> Some(t)])

----------------------------------------------------------------------------
(* The voting rules.                                                       *)

\* a check that finds no device in the cleared ledger
neverConfirmedCleared(report, deviceId) == FALSE

hasDeviceConfirmedCleared(report, deviceId) ==
    IF report.clearedConfirmations = None THEN FALSE
    ELSE \E i \in 1..Len(report.clearedConfirmations[1]) :
            report.clearedConfirmations[1][i].deviceId = deviceId

\* a check without the 24-hour window: any entry of the device counts
confirmedStillThereEver(report, deviceId, t) ==
    IF report.stillThereConfirmations = None THEN FALSE
    ELSE \E i \in 1..Len(report.stillThereConfirmations[1]) :
            report.stillThereConfirmations[1][i].deviceId = deviceId

\* a check that finds no recent entry
neverConfirmedStillThere(report, deviceId, t) == FALSE

hasDeviceConfirmedStillThereRecently(report, deviceId, t) ==
    LET oneDayAgo == t - DayMs IN
    IF report.stillThereConfirmations = None THEN FALSE
    ELSE \E i \in 1..Len(report.stillThereConfirmations[1]) :
            LET c == report.stillThereConfirmations[1][i] IN
            c.deviceId = deviceId /\ getTime(c.timestamp) > oneDayAgo

\* the changes of a cleared vote were two votes enough to resolve
clearedChangesAtTwo(report, deviceId, t) ==
    LET newConfirmations ==
            Append(IF report.clearedConfirmations = None THEN <<>>
                   ELSE report.clearedConfirmations[1],
                   [deviceId |-> deviceId, timestamp |-> toISOString(t)])
        newCount == Len(newConfirmations)
    IN  [clearedCount |-> newCount,
         clearedConfirmations |-> Some(newConfirmations),
         resolved |-> (newCount >= 2),
         lastModified |-> Some(t),
         syncStatus |-> Some("pending")]

\* the changes incrementClearedCount writes for an accepted vote
clearedChanges(report, deviceId, t) ==
    LET newConfirmations ==
            Append(clearedLedger(report),
                   [deviceId |-> deviceId, timestamp |-> toISOString(t)])
        newCount == Len(newConfirmations)
    IN  [clearedCount |-> newCount,
         clearedConfirmations |-> Some(newConfirmations),
         resolved |-> (newCount >= ClearedThreshold),
         lastModified |-> Some(t),
         syncStatus |-> Some("pending")]

\* the changes of a still-there vote were the rebuttal to need three entries
stillThereChangesAtThree(report, deviceId, t) ==
    LET newConfirmations ==
            Append(IF report.stillThereConfirmations = None THEN <<>>
                   ELSE report.stillThereConfirmations[1],
                   [deviceId |-> deviceId, timestamp |-> toISOString(t)])
        newStillThereCount == Len(newConfirmations)
        shouldResetCleared == newStillThereCount >= 3
    IN  [stillThereCount |-> Some(newStillThereCount),
         stillThereConfirmations |-> Some(newConfirmations),
         clearedCount |-> IF shouldResetCleared THEN 0 ELSE report.clearedCount,
         clearedConfirmations |->
            IF shouldResetCleared THEN Some(<<>>) ELSE report.clearedConfirmations,
         resolved |-> FALSE,
         lastModified |-> Some(t),
         syncStatus |-> Some("pending")]

\* the changes of a still-there vote were every vote a rebuttal
stillThereChangesAlwaysReset(report, deviceId, t) ==
    LET newConfirmations ==
            Append(IF report.stillThereConfirmations = None THEN <<>>
                   ELSE report.stillThereConfirmations[1],
                   [deviceId |-> deviceId, timestamp |-> toISOString(t)])
    IN  [stillThereCount |-> Some(Len(newConfirmations)),
         stillThereConfirmations |-> Some(newConfirmations),
         clearedCount |-> 0,
         clearedConfirmations |-> Some(<<>>),
         resolved |-> FALSE,
         lastModified |-> Some(t),
         syncStatus |-> Some("pending")]

\* the changes incrementStillThereCount writes for an accepted vote
stillThereChanges(report, deviceId, t) ==
    LET newConfirmations ==
            Append(stillThereLedger(report),
                   [deviceId |-> deviceId, timestamp |-> toISOString(t)])
        newStillThereCount == Len(newConfirmations)
        shouldResetCleared == newStillThereCount >= RebuttalThreshold
    IN  [stillThereCount |-> Some(newStillThereCount),
         stillThereConfirmations |-> Some(newConfirmations),
         clearedCount |-> IF shouldResetCleared THEN 0 ELSE report.clearedCount,
         clearedConfirmations |->
            IF shouldResetCleared THEN Some(<<>>) ELSE report.clearedConfirmations,
         resolved |-> FALSE,
         lastModified |-> Some(t),
         syncStatus |-> Some("pending")]

\* the results a vote returns
VoteResult(success, alreadyConfirmed) ==
    [success |-> success, alreadyConfirmed |-> alreadyConfirmed]

\* the administrative override writes these
resolvedChanges(t) ==
    [resolved |-> TRUE, lastModified |-> Some(t), syncStatus |-> Some("pending")]

\* handleToggleResolved, toggling off: the direct update
unresolvedChanges(t) ==
    [resolved |-> FALSE, lastModified |-> Some(t), syncStatus |-> Some("pending")]

----------------------------------------------------------------------------
(* The state after construction: a fresh installation, whose database is   *)
(* created empty at the current version, or an installation that still     *)
(* holds the rows schema version 1 stored.                                 *)

V1Rows(id) == {V1Row(id, c, r) : c \in 0..MaxV1Cleared, r \in BOOLEAN}

V1Tables ==
    UNION {[S -> UNION {V1Rows(i) : i \in S}] : S \in (SUBSET Ids) \ {{}}}

V1Table(tbl) == \A i \in DOMAIN tbl : tbl[i].id = i

Init ==
    /\ now = BaseTime
    /\ remote = <<>>
    /\ online = TRUE
    /\ listening = FALSE
    /\ handlers = FALSE
    /\ InitDetector
    /\ InitWatch
    /\ InitTasks
    /\ \/ dbVersion = CurrentVersion /\ reports = <<>>
       \/ dbVersion = 1 /\ reports \in {tbl \in V1Tables : V1Table(tbl)}

syncVars == <<remote, online, listening, handlers>>

----------------------------------------------------------------------------
(* The clock.                                                              *)

Tick ==
    /\ \E t \in TimePoints : t > now /\ now' = t
    /\ UNCHANGED <<reports, dbVersion, syncVars, detectorVars, watchVars, taskVars>>

\* a week and a millisecond on, for the sweep of old resolved reports
TickWeek ==
    /\ now = BaseTime
    /\ now' = BaseTime + SevenDaysMs + 1
    /\ UNCHANGED <<reports, dbVersion, syncVars, detectorVars, watchVars, taskVars>>

\* a day passes after the first instant
TickDay ==
    /\ now = BaseTime
    /\ now' = BaseTime + DayMs
    /\ UNCHANGED <<reports, dbVersion, syncVars, detectorVars, watchVars, taskVars>>

\* the instant of the first sweep of a store that holds old rows, and the
\* days that pass after it
MaxSweepDays == 2
SweepNow == BaseTime + 8 * DayMs

TickSweep ==
    /\ now >= SweepNow
    /\ now < SweepNow + MaxSweepDays * DayMs
    /\ now' = now + DayMs
    /\ UNCHANGED <<reports, dbVersion, syncVars, detectorVars, watchVars, taskVars>>

----------------------------------------------------------------------------
(* Opening a database stored at an older version runs the upgrades of      *)
(* every later version in one transaction.                                 *)

upgrade ==
    /\ dbVersion < CurrentVersion
    /\ reports' = [i \in DOMAIN reports |-> upgradedFrom(dbVersion, reports[i], now)]
    /\ dbVersion' = CurrentVersion
    /\ UNCHANGED <<now, syncVars, detectorVars, watchVars, taskVars>>

Opened == dbVersion = CurrentVersion

----------------------------------------------------------------------------
(* Operations of the store.                                                *)

\* addReport, called by handleSubmitReport for a report with a new id
addReport(id) ==
    /\ Opened
    /\ id \notin DOMAIN reports
    /\ reports' = tablePut(reports, fullReport(newReport(id, now), now))
    /\ UNCHANGED <<dbVersion, now, syncVars, detectorVars, watchVars, taskVars>>

\* what incrementClearedCount returns
clearedResult(tbl, id, deviceId) ==
    IF tableGet(tbl, id) = None THEN VoteResult(FALSE, FALSE)
    ELSE IF hasDeviceConfirmedCleared(tbl[id], deviceId) THEN VoteResult(FALSE, TRUE)
    ELSE VoteResult(TRUE, FALSE)

incrementClearedCount(id, deviceId) ==
    /\ Opened
    /\ reports' = IF clearedResult(reports, id, deviceId).success
                  THEN tableUpdate(reports, id, clearedChanges(reports[id], deviceId, now))
                  ELSE reports
    /\ UNCHANGED <<dbVersion, now, syncVars, detectorVars, watchVars, taskVars>>

\* incrementClearedCount followed through its awaits. The call k reads the
\* row: it returns at once when there is none or the device is in the
\* ledger, and is suspended before its update otherwise, with the row it read.
castGet(k, id, deviceId) ==
    /\ Opened
    /\ castTasks[k].pc = "idle"
    /\ castTasks' = [castTasks EXCEPT ![k] =
            IF clearedResult(reports, id, deviceId).success
            THEN [pc |-> "update", id |-> id, deviceId |-> deviceId,
                  report |-> reports[id]]
            ELSE [pc |-> "done", id |-> id, deviceId |-> deviceId,
                  result |-> clearedResult(reports, id, deviceId)]]
    /\ UNCHANGED <<reports, dbVersion, now, syncVars, detectorVars, watchVars,
                   pushTask, mergeTask, thanked>>

\* the call k writes the changes it computed from the row it read and returns
castUpdate(k) ==
    /\ castTasks[k].pc = "update"
    /\ reports' = tableUpdate(reports, castTasks[k].id,
                      clearedChanges(castTasks[k].report, castTasks[k].deviceId, now))
    /\ castTasks' = [castTasks EXCEPT ![k] =
            [pc |-> "done", id |-> @.id, deviceId |-> @.deviceId,
             result |-> VoteResult(TRUE, FALSE)]]
    /\ UNCHANGED <<dbVersion, now, syncVars, detectorVars, watchVars,
                   pushTask, mergeTask, thanked>>

\* what incrementStillThereCount returns
stillThereResult(tbl, id, deviceId, t) ==
    IF tableGet(tbl, id) = None THEN VoteResult(FALSE, FALSE)
    ELSE IF hasDeviceConfirmedStillThereRecently(tbl[id], deviceId, t)
    THEN VoteResult(FALSE, TRUE)
    ELSE VoteResult(TRUE, FALSE)

\* the model follows a still-there ledger up to MaxStillThere entries
StillThereRoom(tbl, id) ==
    id \in DOMAIN tbl => Len(stillThereLedger(tbl[id])) < MaxStillThere

incrementStillThereCount(id, deviceId) ==
    /\ Opened
    /\ StillThereRoom(reports, id)
    /\ reports' = IF stillThereResult(reports, id, deviceId, now).success
                  THEN tableUpdate(reports, id, stillThereChanges(reports[id], deviceId, now))
                  ELSE reports
    /\ UNCHANGED <<dbVersion, now, syncVars, detectorVars, watchVars, taskVars>>

markAsResolved(id) ==
    /\ Opened
    /\ reports' = tableUpdate(reports, id, resolvedChanges(now))
    /\ UNCHANGED <<dbVersion, now, syncVars, detectorVars, watchVars, taskVars>>

\* a bulk update that resolves every row once a list is given
bulkUpdateOfEveryRow(tbl, ids, t) ==
    [i \in DOMAIN tbl |->
        IF ids # {} THEN Assign(tbl[i], resolvedChanges(t)) ELSE tbl[i]]

\* bulkUpdate: one timestamp for all the ids, ids without a row are skipped
bulkUpdate(tbl, ids, t) ==
    [i \in DOMAIN tbl |->
        IF i \in ids THEN Assign(tbl[i], resolvedChanges(t)) ELSE tbl[i]]

bulkMarkResolved(ids) ==
    /\ Opened
    /\ reports' = bulkUpdate(reports, ids, now)
    /\ UNCHANGED <<dbVersion, now, syncVars, detectorVars, watchVars, taskVars>>

\* The map view's toggle reads resolved from the page's copy of the reports
\* (shownResolved), which other pages and merges do not refresh.
handleToggleResolved(id, shownResolved) ==
    /\ Opened
    /\ id \in DOMAIN reports
    /\ LET newResolved == ~shownResolved IN
       reports' = IF newResolved
                  THEN tableUpdate(reports, id, resolvedChanges(now))
                  ELSE tableUpdate(reports, id, unresolvedChanges(now))
    /\ UNCHANGED <<dbVersion, now, syncVars, detectorVars, watchVars, taskVars>>

----------------------------------------------------------------------------
(* Moderation and archiving.                                               *)

\* an update that raises the flag whatever it was
flaggedChangesRaising(report, t) ==
    [flagged |-> Some(TRUE),
     lastModified |-> Some(t), syncStatus |-> Some("pending")]

flaggedChanges(report, t) ==
    [flagged |-> Some(NotTruthy(report.flagged)),
     lastModified |-> Some(t), syncStatus |-> Some("pending")]

noGlassFoundChanges(report, t) ==
    [noGlassFound |-> Some(NotTruthy(report.noGlassFound)),
     lastModified |-> Some(t), syncStatus |-> Some("pending")]

archiveChanges(t) ==
    [archived |-> Some(TRUE), archivedAt |-> Some(t),
     lastModified |-> Some(t), syncStatus |-> Some("pending")]

unarchiveChanges(t) ==
    [archived |-> Some(FALSE), archivedAt |-> None,
     lastModified |-> Some(t), syncStatus |-> Some("pending")]

\* updateReport: the caller's updates, then the two fields the store stamps
updateChanges(updates, t) ==
    [f \in DOMAIN updates \cup {"lastModified", "syncStatus"} |->
        IF f = "lastModified" THEN Some(t)
        ELSE IF f = "syncStatus" THEN Some("pending")
        ELSE updates[f]]

\* the updates callers of updateReport pass in this model
UpdateInputs ==
    {[flagged |-> Some(TRUE)],
     [syncStatus |-> Some("synced"), lastModified |-> Some(BaseTime)]}

\* toggleFlagged returns the new flag, and false when there is no row
toggleFlaggedResult(tbl, id) ==
    IF tableGet(tbl, id) = None THEN FALSE ELSE NotTruthy(tbl[id].flagged)

toggleFlagged(id) ==
    /\ Opened
    /\ reports' = IF tableGet(reports, id) = None THEN reports
                  ELSE tableUpdate(reports, id, flaggedChanges(reports[id], now))
    /\ UNCHANGED <<dbVersion, now, syncVars, detectorVars, watchVars, taskVars>>

toggleNoGlassFoundResult(tbl, id) ==
    IF tableGet(tbl, id) = None THEN FALSE ELSE NotTruthy(tbl[id].noGlassFound)

toggleNoGlassFound(id) ==
    /\ Opened
    /\ reports' = IF tableGet(reports, id) = None THEN reports
                  ELSE tableUpdate(reports, id, noGlassFoundChanges(reports[id], now))
    /\ UNCHANGED <<dbVersion, now, syncVars, detectorVars, watchVars, taskVars>>

archiveReport(id) ==
    /\ Opened
    /\ reports' = tableUpdate(reports, id, archiveChanges(now))
    /\ UNCHANGED <<dbVersion, now, syncVars, detectorVars, watchVars, taskVars>>

unarchiveReport(id) ==
    /\ Opened
    /\ reports' = tableUpdate(reports, id, unarchiveChanges(now))
    /\ UNCHANGED <<dbVersion, now, syncVars, detectorVars, watchVars, taskVars>>

\* a selection that takes archived rows again
toArchiveArchivedToo(tbl, t) ==
    LET sevenDaysAgo == t - SevenDaysMs IN
    {i \in DOMAIN tbl :
        /\ tbl[i].resolved
        /\ tbl[i].lastModified # None
        /\ tbl[i].lastModified[1] < sevenDaysAgo}

\* a selection that takes a row last modified exactly seven days ago
toArchiveAtSevenDays(tbl, t) ==
    LET sevenDaysAgo == t - SevenDaysMs IN
    {i \in DOMAIN tbl :
        /\ tbl[i].resolved
        /\ (IF tbl[i].archived = None THEN TRUE ELSE ~tbl[i].archived[1])
        /\ tbl[i].lastModified # None
        /\ tbl[i].lastModified[1] <= sevenDaysAgo}

\* the rows the sweep selects: resolved, not archived, last modified more
\* than seven days ago (a row without lastModified compares false)
toArchive(tbl, t) ==
    LET sevenDaysAgo == t - SevenDaysMs IN
    {i \in DOMAIN tbl :
        /\ tbl[i].resolved
        /\ NotTruthy(tbl[i].archived)
        /\ tbl[i].lastModified # None
        /\ tbl[i].lastModified[1] < sevenDaysAgo}

\* autoArchiveOldResolvedReports returns the number of rows it selected
autoArchiveResult(tbl, t) == Cardinality(toArchive(tbl, t))

\* the table after the sweep: archiveReport of every selected row
autoArchiveStore(tbl, t) ==
    [i \in DOMAIN tbl |->
        IF i \in toArchive(tbl, t) THEN Assign(tbl[i], archiveChanges(t)) ELSE tbl[i]]

autoArchiveOldResolvedReports ==
    /\ Opened
    /\ reports' = autoArchiveStore(reports, now)
    /\ UNCHANGED <<dbVersion, now, syncVars, detectorVars, watchVars, taskVars>>

updateReport(id, updates) ==
    /\ Opened
    /\ reports' = tableUpdate(reports, id, updateChanges(updates, now))
    /\ UNCHANGED <<dbVersion, now, syncVars, detectorVars, watchVars, taskVars>>

deleteReport(id) ==
    /\ Opened
    /\ reports' = tableDelete(reports, id)
    /\ UNCHANGED <<dbVersion, now, syncVars, detectorVars, watchVars, taskVars>>

----------------------------------------------------------------------------
(* Synchronisation with the Realtime Database.                             *)

\* x || [] written to the database: it stores no empty array
storedArray(x) == IF Nullish(x, <<>>) = <<>> THEN None ELSE x

\* the document set() stores for toRealtimeDbReport(report); the server
\* replaces the serverTimestamp() placeholder by its clock
toRealtimeDbReport(report, serverTime) ==
    [id |-> report.id, lat |-> report.lat, lng |-> report.lng,
     desc |-> report.desc, date |-> report.date,
     clearedCount |-> report.clearedCount,
     resolved |-> report.resolved,
     stillThereCount |-> Nullish(report.stillThereCount, 0),
     stillThereConfirmations |-> storedArray(report.stillThereConfirmations),
     clearedConfirmations |-> storedArray(report.clearedConfirmations),
     updatedAt |-> serverTime,
     archived |-> Nullish(report.archived, FALSE),
     flagged |-> Nullish(report.flagged, FALSE),
     photoBase64 |-> report.photoBase64,
     photoUrl |-> report.photoUrl,
     archivedAt |-> IF TruthyNum(report.archivedAt) THEN report.archivedAt ELSE None]

fromRealtimeDbReport(data, id) ==
    [id |-> data.id, lat |-> data.lat, lng |-> data.lng, desc |-> data.desc,
     photoBase64 |-> data.photoBase64, photoUrl |-> data.photoUrl,
     date |-> data.date,
     clearedCount |-> data.clearedCount,
     resolved |-> data.resolved,
     stillThereCount |-> Some(data.stillThereCount),
     stillThereConfirmations |-> Some(Nullish(data.stillThereConfirmations, <<>>)),
     clearedConfirmations |-> Some(Nullish(data.clearedConfirmations, <<>>)),
     syncStatus |-> Some("synced"),
     lastModified |-> Some(data.updatedAt),
     firebaseId |-> Some(id),
     archived |-> Some(data.archived),
     archivedAt |-> data.archivedAt,
     flagged |-> Some(data.flagged),
     noGlassFound |-> None]

\* fetchFromFirestore / the snapshot of a notification: the rows of the documents
remoteReports(docs) == [i \in DOMAIN docs |-> fromRealtimeDbReport(docs[i], i)]

\* a merge in which the remote record also wins a tie
mergeReportsOnTie(localReports, remoteRows) ==
    [i \in DOMAIN localReports \cup DOMAIN remoteRows |->
        IF i \notin DOMAIN localReports THEN remoteRows[i]
        ELSE IF i \notin DOMAIN remoteRows THEN localReports[i]
        ELSE IF Nullish(remoteRows[i].lastModified, 0) >= Nullish(localReports[i].lastModified, 0)
             THEN Assign(remoteRows[i], [syncStatus |-> Some("synced")])
             ELSE localReports[i]]

\* a merge that returns the ids of the remote snapshot only
mergeReportsRemoteIds(localReports, remoteRows) ==
    [i \in DOMAIN remoteRows |->
        IF i \notin DOMAIN localReports THEN remoteRows[i]
        ELSE IF Nullish(remoteRows[i].lastModified, 0) > Nullish(localReports[i].lastModified, 0)
             THEN Assign(remoteRows[i], [syncStatus |-> Some("synced")])
             ELSE localReports[i]]

\* a merge that marks the records it adds from its second argument as synced
mergeReportsMarkingAdds(localReports, remoteRows) ==
    [i \in DOMAIN localReports \cup DOMAIN remoteRows |->
        IF i \notin DOMAIN localReports
        THEN Assign(remoteRows[i], [syncStatus |-> Some("synced")])
        ELSE IF i \notin DOMAIN remoteRows THEN localReports[i]
        ELSE IF Nullish(remoteRows[i].lastModified, 0) > Nullish(localReports[i].lastModified, 0)
             THEN Assign(remoteRows[i], [syncStatus |-> Some("synced")])
             ELSE localReports[i]]

\* mergeReports, keyed by id like its Map
mergeReports(localReports, remoteRows) ==
    [i \in DOMAIN localReports \cup DOMAIN remoteRows |->
        IF i \notin DOMAIN localReports THEN remoteRows[i]
        ELSE IF i \notin DOMAIN remoteRows THEN localReports[i]
        ELSE LET localTime == Nullish(localReports[i].lastModified, 0)
                 remoteTime == Nullish(remoteRows[i].lastModified, 0)
             IN  IF remoteTime > localTime
                 THEN Assign(remoteRows[i], [syncStatus |-> Some("synced")])
                 ELSE localReports[i]]

getPendingReports(tbl) == {i \in DOMAIN tbl : tbl[i].syncStatus = Some("pending")}

\* an acknowledgement that also resolved the rows it marks
markAsSyncedResolving(tbl, ids) ==
    [i \in DOMAIN tbl |->
        IF i \in ids
        THEN Assign(tbl[i], [syncStatus |-> Some("synced"), firebaseId |-> Some(i),
                             resolved |-> TRUE])
        ELSE tbl[i]]

\* markAsSynced(ids, firebaseIds), every id having its firebaseId
markAsSynced(tbl, ids) ==
    [i \in DOMAIN tbl |->
        IF i \in ids
        THEN Assign(tbl[i], [syncStatus |-> Some("synced"), firebaseId |-> Some(i)])
        ELSE tbl[i]]

\* the acknowledgement of a push, as the store sees it
pushAcknowledged(ids) ==
    /\ Opened
    /\ ids \subseteq getPendingReports(reports)
    /\ reports' = markAsSynced(reports, ids)
    /\ UNCHANGED <<dbVersion, now, syncVars, detectorVars, watchVars, taskVars>>

\* a write that patches the stored document instead of replacing it: the
\* ledgers and the archive time the new document lacks keep their stored value
writtenAsPatch(docs, tbl, ids, serverTime) ==
    [i \in DOMAIN docs \cup ids |->
        IF i \notin ids THEN docs[i]
        ELSE LET new == [id |-> tbl[i].id, lat |-> tbl[i].lat, lng |-> tbl[i].lng,
                         desc |-> tbl[i].desc, date |-> tbl[i].date,
                         clearedCount |-> tbl[i].clearedCount,
                         resolved |-> tbl[i].resolved,
                         stillThereCount |-> Nullish(tbl[i].stillThereCount, 0),
                         stillThereConfirmations |->
                             IF Nullish(tbl[i].stillThereConfirmations, <<>>) = <<>>
                             THEN None ELSE tbl[i].stillThereConfirmations,
                         clearedConfirmations |->
                             IF Nullish(tbl[i].clearedConfirmations, <<>>) = <<>>
                             THEN None ELSE tbl[i].clearedConfirmations,
                         updatedAt |-> serverTime,
                         archived |-> Nullish(tbl[i].archived, FALSE),
                         flagged |-> Nullish(tbl[i].flagged, FALSE),
                         photoBase64 |-> tbl[i].photoBase64,
                         photoUrl |-> tbl[i].photoUrl,
                         archivedAt |-> IF TruthyNum(tbl[i].archivedAt)
                                        THEN tbl[i].archivedAt ELSE None]
             IN  IF i \notin DOMAIN docs THEN new
                 ELSE [new EXCEPT
                         !.stillThereConfirmations =
                             IF @ = None THEN docs[i].stillThereConfirmations ELSE @,
                         !.clearedConfirmations =
                             IF @ = None THEN docs[i].clearedConfirmations ELSE @,
                         !.archivedAt = IF @ = None THEN docs[i].archivedAt ELSE @]]

\* the documents after syncReportToFirestore of the rows ids
written(docs, tbl, ids, serverTime) ==
    [i \in DOMAIN docs \cup ids |->
        IF i \in ids THEN toRealtimeDbReport(tbl[i], serverTime) ELSE docs[i]]

\* a push that takes a rejected write for a successful one
syncedIdsIgnoringFailure(pending, failed) == pending

\* syncPendingToFirestore: the ids whose write succeeded, the writes of the
\* rows in failed being rejected
syncedIdsOf(pending, failed) == pending \ failed

\* the toast of syncPendingToFirestore: the number of failed writes, if any
syncFailedToast(failed) == IF failed # {} THEN Some(Cardinality(failed)) ELSE None

syncPendingToFirestore(failed) ==
    /\ Opened
    /\ LET pending == getPendingReports(reports)
           syncedIds == syncedIdsOf(pending, failed)
       IN  /\ failed \subseteq pending
           /\ remote' = written(remote, reports, syncedIds, now)
           /\ reports' = markAsSynced(reports, syncedIds)
    /\ UNCHANGED <<dbVersion, now, online, listening, handlers, detectorVars, watchVars, taskVars>>

\* syncPendingToFirestore followed through its awaits. It reads the pending
\* rows and, having some, is suspended with them before its writes.
syncPendingRead ==
    /\ Opened
    /\ pushTask = None
    /\ getPendingReports(reports) # {}
    /\ pushTask' = Some([pendingReports |->
                            [i \in getPendingReports(reports) |-> reports[i]],
                         syncedIds |-> None])
    /\ UNCHANGED <<reports, dbVersion, now, syncVars, detectorVars, watchVars,
                   mergeTask, castTasks, thanked>>

\* its loop of syncReportToFirestore writes the rows it read, the writes of
\* the rows in failed being rejected
syncPendingWrite(failed) ==
    /\ pushTask # None
    /\ pushTask[1].syncedIds = None
    /\ failed \subseteq DOMAIN pushTask[1].pendingReports
    /\ LET syncedIds == syncedIdsOf(DOMAIN pushTask[1].pendingReports, failed) IN
       /\ remote' = written(remote, pushTask[1].pendingReports, syncedIds, now)
       /\ pushTask' = Some([pushTask[1] EXCEPT !.syncedIds = Some(syncedIds)])
    /\ UNCHANGED <<reports, dbVersion, now, online, listening, handlers,
                   detectorVars, watchVars, mergeTask, castTasks, thanked>>

\* its markAsSynced of the rows written, after which it returns
syncPendingMark ==
    /\ pushTask # None
    /\ pushTask[1].syncedIds # None
    /\ reports' = markAsSynced(reports, pushTask[1].syncedIds[1])
    /\ pushTask' = None
    /\ UNCHANGED <<dbVersion, now, syncVars, detectorVars, watchVars,
                   mergeTask, castTasks, thanked>>

\* a fullSync that pushes the pending rows although the fetch failed
fullSyncDocsPushingAnyway(tbl, docs, fetched, failed, serverTime) ==
    LET merged == IF fetched THEN mergeReports(tbl, remoteReports(docs)) ELSE tbl
    IN  written(docs, merged, syncedIdsOf(getPendingReports(merged), failed), serverTime)

\* a fullSync that merges and does not push
fullSyncDocsWithoutPush(tbl, docs, fetched, failed, serverTime) == docs

\* fullSync: the rows syncPendingToFirestore calls syncReportToFirestore for
fullSyncAttempts(tbl, docs, fetched) ==
    IF fetched THEN getPendingReports(mergeReports(tbl, remoteReports(docs))) ELSE {}

\* fullSync: the local rows after it; fetched tells whether fetchFromFirestore
\* succeeded, failed the rows whose write is rejected
fullSyncStore(tbl, docs, fetched, failed) ==
    IF fetched
    THEN LET merged == mergeReports(tbl, remoteReports(docs))
         IN  markAsSynced(merged, syncedIdsOf(getPendingReports(merged), failed))
    ELSE tbl

\* fullSync: the remote documents after it
fullSyncDocs(tbl, docs, fetched, failed, serverTime) ==
    IF fetched
    THEN LET merged == mergeReports(tbl, remoteReports(docs))
         IN  written(docs, merged, syncedIdsOf(getPendingReports(merged), failed), serverTime)
    ELSE docs

\* fullSync: what it returns, mergedReports or, from the catch, getAllReports()
fullSyncResult(tbl, docs, fetched) ==
    IF fetched THEN mergeReports(tbl, remoteReports(docs)) ELSE tbl

\* fullSync with the fetch succeeding: merge, store, push
fullSync(failed) ==
    /\ Opened
    /\ failed \subseteq fullSyncAttempts(reports, remote, TRUE)
    /\ remote' = fullSyncDocs(reports, remote, TRUE, failed, now)
    /\ reports' = fullSyncStore(reports, remote, TRUE, failed)
    /\ UNCHANGED <<dbVersion, now, online, listening, handlers, detectorVars, watchVars, taskVars>>

\* fullSync with the fetch failing: the local rows are returned
fullSyncFailed ==
    /\ Opened
    /\ remote' = fullSyncDocs(reports, remote, FALSE, {}, now)
    /\ reports' = fullSyncStore(reports, remote, FALSE, {})
    /\ UNCHANGED <<dbVersion, now, online, listening, handlers, detectorVars, watchVars, taskVars>>

\* the onValue callback
realtimeCallback ==
    /\ Opened
    /\ IF ~online THEN UNCHANGED reports
       ELSE reports' = mergeReports(reports, remoteReports(remote))
    /\ UNCHANGED <<remote, dbVersion, now, online, listening, handlers, detectorVars, watchVars, taskVars>>

\* for (const report of merged) await db.reports.put(report)
putAll(tbl, rows) ==
    [i \in DOMAIN tbl \cup DOMAIN rows |-> IF i \in DOMAIN rows THEN rows[i] ELSE tbl[i]]

\* The onValue callback followed through its awaits: online, it builds the
\* remote reports of the snapshot and reads the local ones, and is suspended
\* with both before its writes.
callbackRead ==
    /\ Opened
    /\ online
    /\ mergeTask = None
    /\ mergeTask' = Some([of |-> "callback",
                          remoteReports |-> remoteReports(remote),
                          localReports |-> reports])
    /\ UNCHANGED <<reports, dbVersion, now, syncVars, detectorVars, watchVars,
                   pushTask, castTasks, thanked>>

\* it puts the rows merged from what it read
callbackWrite ==
    /\ mergeTask # None
    /\ mergeTask[1].of = "callback"
    /\ reports' = putAll(reports,
                      mergeReports(mergeTask[1].localReports, mergeTask[1].remoteReports))
    /\ mergeTask' = None
    /\ UNCHANGED <<dbVersion, now, syncVars, detectorVars, watchVars,
                   pushTask, castTasks, thanked>>

\* fullSync followed through its awaits: it fetches the remote reports and
\* reads the local ones, and is suspended with both before its writes
fullSyncRead ==
    /\ Opened
    /\ mergeTask = None
    /\ mergeTask' = Some([of |-> "fullSync",
                          remoteReports |-> remoteReports(remote),
                          localReports |-> reports])
    /\ UNCHANGED <<reports, dbVersion, now, syncVars, detectorVars, watchVars,
                   pushTask, castTasks, thanked>>

\* it puts the rows merged from what it read, then pushes the pending rows
fullSyncWrite(failed) ==
    /\ mergeTask # None
    /\ mergeTask[1].of = "fullSync"
    /\ LET stored == putAll(reports,
                        mergeReports(mergeTask[1].localReports, mergeTask[1].remoteReports))
           syncedIds == syncedIdsOf(getPendingReports(stored), failed)
       IN  /\ failed \subseteq getPendingReports(stored)
           /\ remote' = written(remote, stored, syncedIds, now)
           /\ reports' = markAsSynced(stored, syncedIds)
    /\ mergeTask' = None
    /\ UNCHANGED <<dbVersion, now, online, listening, handlers, detectorVars, watchVars,
                   pushTask, castTasks, thanked>>

\* Another client, in step with the remote store, casts a vote on its copy of
\* the document and pushes it at once.
peerVote(id, changes) ==
    /\ id \in DOMAIN remote
    /\ remote' = [remote EXCEPT ![id] =
            toRealtimeDbReport(Assign(fromRealtimeDbReport(@, id), changes), now)]
    /\ UNCHANGED <<reports, dbVersion, now, online, listening, handlers, detectorVars, watchVars, taskVars>>

peerCleared(id, deviceId) ==
    /\ id \in DOMAIN remote
    /\ ~hasDeviceConfirmedCleared(fromRealtimeDbReport(remote[id], id), deviceId)
    /\ peerVote(id, clearedChanges(fromRealtimeDbReport(remote[id], id), deviceId, now))

peerStillThere(id, deviceId) ==
    /\ id \in DOMAIN remote
    /\ ~hasDeviceConfirmedStillThereRecently(fromRealtimeDbReport(remote[id], id), deviceId, now)
    /\ Len(stillThereLedger(fromRealtimeDbReport(remote[id], id))) < MaxStillThere
    /\ peerVote(id, stillThereChanges(fromRealtimeDbReport(remote[id], id), deviceId, now))

\* handleCleared of the page: the vote of this device; after an accepted
\* vote the toast thanks for it and syncPendingToFirestore is started, whose
\* writes all fail while the client is offline
handleCleared(id, failed) ==
    /\ Opened
    /\ LET result == clearedResult(reports, id, LocalDevice)
           voted == IF result.success
                    THEN tableUpdate(reports, id, clearedChanges(reports[id], LocalDevice, now))
                    ELSE reports
           pending == IF result.success THEN getPendingReports(voted) ELSE {}
           syncedIds == syncedIdsOf(pending, failed)
       IN  /\ failed \subseteq pending
           /\ online \/ failed = pending
           /\ remote' = written(remote, voted, syncedIds, now)
           /\ reports' = markAsSynced(voted, syncedIds)
           /\ thanked' = IF result.success THEN thanked \cup {<<id, LocalDevice>>}
                         ELSE thanked
    /\ UNCHANGED <<dbVersion, now, online, listening, handlers, detectorVars, watchVars,
                   pushTask, mergeTask, castTasks>>

\* handleCleared on another client, which is in step with the remote store:
\* the vote of its device is accepted, thanked for and pushed at once
peerHandleCleared(id, deviceId) ==
    /\ id \in DOMAIN remote
    /\ ~hasDeviceConfirmedCleared(fromRealtimeDbReport(remote[id], id), deviceId)
    /\ remote' = [remote EXCEPT ![id] =
            toRealtimeDbReport(
                Assign(fromRealtimeDbReport(@, id),
                       clearedChanges(fromRealtimeDbReport(@, id), deviceId, now)),
                now)]
    /\ thanked' = thanked \cup {<<id, deviceId>>}
    /\ UNCHANGED <<reports, dbVersion, now, online, listening, handlers,
                   detectorVars, watchVars, pushTask, mergeTask, castTasks>>

setOnline(b) ==
    /\ online # b
    /\ online' = b
    /\ UNCHANGED <<reports, remote, dbVersion, now, listening, handlers, detectorVars, watchVars, taskVars>>

\* the callback: the rows syncReportToFirestore is called for
callbackAttempts(tbl, docs) == {}

\* the callback: the argument it passes to onReportsUpdate, if it calls it
callbackUpdate(tbl, docs, isOnline) ==
    IF ~isOnline THEN None ELSE Some(mergeReports(tbl, remoteReports(docs)))

\* initializeSync: online, handleOnline (a fullSync) runs and the listener is
\* set up; offline, the local rows go to onReportsUpdate; the online and
\* offline listeners are registered either way
initializeSync(fetched, failed) ==
    /\ Opened
    /\ mounted
    /\ ~handlers
    /\ IF online
       THEN /\ failed \subseteq fullSyncAttempts(reports, remote, fetched)
            /\ remote' = fullSyncDocs(reports, remote, fetched, failed, now)
            /\ reports' = fullSyncStore(reports, remote, fetched, failed)
            /\ listening' = TRUE
       ELSE /\ failed = {}
            /\ fetched
            /\ UNCHANGED <<reports, remote, listening>>
    /\ handlers' = TRUE
    /\ UNCHANGED <<dbVersion, now, online, detectorVars, watchVars, taskVars>>

\* the online event: handleOnline runs a fullSync when it is registered
handleOnline(fetched, failed) ==
    /\ Opened
    /\ ~online
    /\ online' = TRUE
    /\ IF handlers
       THEN /\ failed \subseteq fullSyncAttempts(reports, remote, fetched)
            /\ remote' = fullSyncDocs(reports, remote, fetched, failed, now)
            /\ reports' = fullSyncStore(reports, remote, fetched, failed)
       ELSE /\ failed = {}
            /\ fetched
            /\ UNCHANGED <<reports, remote>>
    /\ UNCHANGED <<dbVersion, now, listening, handlers, detectorVars, watchVars, taskVars>>

\* the offline event: handleOffline shows a toast
handleOffline ==
    /\ online
    /\ online' = FALSE
    /\ UNCHANGED <<reports, remote, dbVersion, now, listening, handlers, detectorVars, watchVars, taskVars>>

\* the remote store notifies the subscribed callback
notification ==
    /\ listening
    /\ realtimeCallback

\* the cleanup function initializeSync returns
cleanup ==
    /\ handlers
    /\ handlers' = FALSE
    /\ listening' = FALSE
    /\ UNCHANGED <<reports, remote, dbVersion, now, online, detectorVars, watchVars, taskVars>>

----------------------------------------------------------------------------
(* The proximity detector (useProximityAlerts).                            *)

ENTRY_RADIUS_METERS == 3
EXIT_RADIUS_METERS == 6
DEBOUNCE_MS == 1000
SELF_REPORT_SUPPRESS_MS == 10 * 60 * 1000

\* The places of the reports, one per report, and the distances in metres a
\* fix can have to a place: inside the entry radius, on it, between the two
\* radii, on the exit radius and outside it.
Places == {<<i, FormLng>> : i \in EngineIds}
Distances == {2, 3, 5, 6, 7}

\* a fix (position.coords), given by its distance to every place
Positions == [Places -> Distances]

\* calculateDistance(latitude, longitude, lat, lng): the great-circle distance
\* from the fix to a place, in metres
calculateDistance(position, lat, lng) == position[<<lat, lng>>]

\* getActiveReports, and the filter of handleReportsUpdate: the rows that are
\* not archived; this is the list the page passes to the detector
getActiveReports(tbl) == {i \in DOMAIN tbl : NotTruthy(tbl[i].archived)}

\* checkProximity: reports.filter(r => !r.resolved && !r.archived)
activeReports(tbl) ==
    {i \in getActiveReports(tbl) : ~tbl[i].resolved /\ NotTruthy(tbl[i].archived)}

\* a detector that lets a report enter anywhere within the exit radius
nearbyIdsWithoutHysteresis(tbl, suppressed, previous, position) ==
    {i \in activeReports(tbl) \ suppressed :
        calculateDistance(position, tbl[i].lat, tbl[i].lng) <= EXIT_RADIUS_METERS}

\* a detector that looks at the distance only
nearbyIdsOfAllReports(tbl, suppressed, previous, position) ==
    {i \in DOMAIN tbl :
        LET distance == calculateDistance(position, tbl[i].lat, tbl[i].lng) IN
        \/ distance <= ENTRY_RADIUS_METERS
        \/ distance <= EXIT_RADIUS_METERS /\ i \in previous}

\* checkProximity: nearbyIds, which is also currentlyInProximity
nearbyIds(tbl, suppressed, previous, position) ==
    {i \in activeReports(tbl) \ suppressed :
        LET distance == calculateDistance(position, tbl[i].lat, tbl[i].lng) IN
        \/ distance <= ENTRY_RADIUS_METERS
        \/ distance <= EXIT_RADIUS_METERS /\ i \in previous}

newlyEntered(nearby, previous) == nearby \ previous

\* a detector that never sees an exit
neverExited(nearby, previous) == FALSE

justExited(nearby, previous) == nearby = {} /\ previous # {}

\* an alert without the latch: every newly entered report fires
alertTriggeredUnlatched(nearby, previous, latch) == newlyEntered(nearby, previous) # {}

\* checkProximity: vibration, notification and onAlertTriggered fire
alertTriggered(nearby, previous, latch) ==
    newlyEntered(nearby, previous) # {} /\ ~latch

\* checkProximity: onAlertCleared fires
alertCleared(nearby, previous) == justExited(nearby, previous)

\* a latch that is released as soon as one report leaves the range
latchAfterAnyExit(nearby, previous, latch) ==
    LET triggered == IF alertTriggered(nearby, previous, latch) THEN TRUE ELSE latch
    IN  IF previous \ nearby # {} THEN FALSE ELSE triggered

\* checkProximity: hasTriggeredAlertRef after the fix
latchAfter(nearby, previous, latch) ==
    LET triggered == IF alertTriggered(nearby, previous, latch) THEN TRUE ELSE latch
    IN  IF justExited(nearby, previous) THEN FALSE ELSE triggered

\* a detector that processes every fix
neverDebounced(t, last) == FALSE

\* checkProximity: the fix is dropped
debounced(t, last) == t - last < DEBOUNCE_MS

\* a registered geolocation watch delivers a fix to checkProximity
checkProximity(position) ==
    /\ Opened
    /\ watches # {}
    /\ IF debounced(now, lastCheck)
       THEN UNCHANGED <<lastCheck, previouslyInProximity, hasTriggeredAlert, userLocation>>
       ELSE LET nearby == nearbyIds(reports, suppressedIds, previouslyInProximity, position)
            IN  /\ lastCheck' = now
                /\ previouslyInProximity' = nearby
                /\ userLocation' = Some(position)
                /\ hasTriggeredAlert' =
                      latchAfter(nearby, previouslyInProximity, hasTriggeredAlert)
    /\ UNCHANGED <<reports, dbVersion, now, syncVars, enabled, suppressedIds,
                   watchVars, taskVars>>

\* a reset that leaves the latch as it is
latchKeptOnDisable(latch) == latch

\* the reset effect: hasTriggeredAlertRef after the detector is disabled
latchOnDisable(latch) == FALSE

\* the ids the browser gives its geolocation watches, as far as followed
MaxWatchIds == 2
WatchIds == 1..MaxWatchIds

\* navigator.geolocation.watchPosition returns the id of the watch it
\* registers, an id no registered watch has
watchPosition(registered) ==
    CHOOSE w \in WatchIds \ registered : \A v \in WatchIds \ registered : w <= v

\* a cleanup that leaves the watch registered
clearWatchForgotten(ref, registered) == registered

\* the cleanup of the watch effect: clearWatch(watchIdRef.current) unless the
\* ref is null
clearWatch(ref, registered) ==
    IF ref = None THEN registered ELSE registered \ {ref[1]}

\* the user switches the proximity alerts: when they go off the cleanup of
\* the watch effect clears the watch and the reset effect runs, when they go
\* on the watch effect registers a watch
toggle ==
    /\ mounted
    /\ enabled' = ~enabled
    /\ IF enabled
       THEN /\ watches' = clearWatch(watchIdRef, watches)
            /\ watchIdRef' = None
            /\ hasTriggeredAlert' = latchOnDisable(hasTriggeredAlert)
            /\ previouslyInProximity' = {}
            /\ userLocation' = None
       ELSE /\ WatchIds \ watches # {}
            /\ watches' = watches \cup {watchPosition(watches)}
            /\ watchIdRef' = Some(watchPosition(watches))
            /\ UNCHANGED <<hasTriggeredAlert, previouslyInProximity, userLocation>>
    /\ UNCHANGED <<reports, dbVersion, now, syncVars, suppressedIds, lastCheck,
                   mounted, taskVars>>

\* a render gives checkProximity a new identity (the reports, the suppressed
\* ids or a callback changed) while the alerts are on: the cleanup of the
\* watch effect runs, then the effect registers a watch for the new callback
rewatch ==
    /\ mounted
    /\ enabled
    /\ WatchIds \ watches # {}
    /\ watches' = clearWatch(watchIdRef, watches) \cup {watchPosition(watches)}
    /\ watchIdRef' = Some(watchPosition(watches))
    /\ UNCHANGED <<reports, dbVersion, now, syncVars, mounted, taskVars,
                   enabled, suppressedIds, lastCheck, previouslyInProximity,
                   hasTriggeredAlert, userLocation>>

\* the page unmounts: the cleanup of the watch effect runs, and the cleanup
\* initializeSync returned, which the page's effect returns
unmount ==
    /\ mounted
    /\ mounted' = FALSE
    /\ watches' = clearWatch(watchIdRef, watches)
    /\ watchIdRef' = None
    /\ handlers' = FALSE
    /\ listening' = FALSE
    /\ UNCHANGED <<reports, remote, dbVersion, now, online, detectorVars, taskVars>>

\* handleSubmitReport at a place of the map: the report is stored and
\* suppressed; the push that follows is a task of its own
handleSubmitReport(id, reportLocation) ==
    /\ Opened
    /\ id \notin DOMAIN reports
    /\ reports' = tablePut(reports,
                      fullReport([newReport(id, now) EXCEPT !.lat = reportLocation[1],
                                                            !.lng = reportLocation[2]], now))
    /\ suppressedIds' = suppressedIds \cup {id}
    /\ UNCHANGED <<dbVersion, now, syncVars,
                   enabled, lastCheck, previouslyInProximity, hasTriggeredAlert,
                   userLocation, watchVars, taskVars>>

\* the timer of suppressReport removes the id, ten minutes after the report
\* was submitted
suppressTimeout(id) ==
    /\ id \in suppressedIds
    /\ id \in DOMAIN reports
    /\ now >= getTime(reports[id].date) + SELF_REPORT_SUPPRESS_MS
    /\ suppressedIds' = suppressedIds \ {id}
    /\ UNCHANGED <<reports, dbVersion, now, syncVars,
                   enabled, lastCheck, previouslyInProximity, hasTriggeredAlert,
                   userLocation, watchVars, taskVars>>

\* half a second passes between two fixes
MaxFixTicks == 4

TickFix ==
    /\ now < BaseTime + MaxFixTicks * 500
    /\ now' = now + 500
    /\ UNCHANGED <<reports, dbVersion, syncVars, detectorVars, watchVars, taskVars>>

\* a stored report at its place, submitted a second less than ten minutes
\* ago: two other devices have voted cleared, it is resolved or not,
\* archived or not
DetectorRows(id) ==
    {Assign(fullReport(newReport(id, BaseTime - SELF_REPORT_SUPPRESS_MS + 1000), BaseTime),
            [lat |-> id, clearedCount |-> 2,
             clearedConfirmations |->
                Some(<<[deviceId |-> 2, timestamp |-> toISOString(BaseTime)],
                       [deviceId |-> 3, timestamp |-> toISOString(BaseTime)]>>),
             resolved |-> r, archived |-> ar,
             archivedAt |-> IF ar = Some(TRUE) THEN Some(BaseTime) ELSE None]) :
        r \in BOOLEAN, ar \in {None, Some(TRUE)}}

DetectorTables ==
    UNION {{tbl \in [S -> UNION {DetectorRows(i) : i \in S}] : \A i \in S : tbl[i].id = i} :
             S \in SUBSET EngineIds}

\* the page is mounted over a store that holds reports, some of them this
\* device's own of the last ten minutes; no fix has arrived yet
InitProximity ==
    /\ now = BaseTime
    /\ dbVersion = CurrentVersion
    /\ remote = <<>>
    /\ online = TRUE
    /\ listening = FALSE
    /\ handlers = FALSE
    /\ reports \in DetectorTables
    /\ enabled = TRUE
    /\ suppressedIds \in SUBSET DOMAIN reports
    /\ lastCheck = 0
    /\ previouslyInProximity = {}
    /\ hasTriggeredAlert = FALSE
    /\ userLocation = <<>>
    /\ InitWatch
    /\ InitTasks

\* the detector at work: fixes every half second, the switch, the timers of
\* suppressed reports, this device voting on the first report and
\* submitting the others
NextProximity ==
    \/ TickFix
    \/ \E position \in Positions : checkProximity(position)
    \/ toggle
    \/ \E id \in EngineIds \ Ids : handleSubmitReport(id, <<id, FormLng>>)
    \/ \E id \in EngineIds : suppressTimeout(id)
    \/ \E id \in Ids : incrementClearedCount(id, LocalDevice)
SpecProximity == InitProximity /\ [][NextProximity]_vars

----------------------------------------------------------------------------
(* The next-state relations. Each specification follows the operations of  *)
(* one part of the program, all of them over the same state.               *)

NextVotes ==
    \/ \E id \in Ids, d \in Devices : incrementClearedCount(id, d)
    \/ \E id \in Ids, d \in Devices : incrementStillThereCount(id, d)

NextAdmin ==
    \/ \E id \in Ids : markAsResolved(id)
    \/ \E ids \in SUBSET Ids : bulkMarkResolved(ids)
    \/ \E id \in Ids, b \in BOOLEAN : handleToggleResolved(id, b)

NextModeration ==
    \/ \E id \in Ids : toggleFlagged(id)
    \/ \E id \in Ids : toggleNoGlassFound(id)
    \/ \E id \in Ids : archiveReport(id)
    \/ \E id \in Ids : unarchiveReport(id)
    \/ autoArchiveOldResolvedReports
    \/ \E id \in Ids, u \in UpdateInputs : updateReport(id, u)
    \/ \E id \in Ids : deleteReport(id)

NextSync ==
    \/ \E failed \in SUBSET Ids : syncPendingToFirestore(failed)
    \/ \E failed \in SUBSET Ids : fullSync(failed)
    \/ fullSyncFailed
    \/ realtimeCallback
    \/ \E b \in BOOLEAN : setOnline(b)

NextPeer ==
    \/ \E id \in Ids, d \in PeerDevices : peerCleared(id, d)
    \/ \E id \in Ids, d \in PeerDevices : peerStillThere(id, d)

InitFresh == Init /\ dbVersion = CurrentVersion

\* the voting rules, from a fresh or a migrated store
NextVoting == Tick \/ upgrade \/ (\E id \in Ids : addReport(id)) \/ NextVotes \/ NextAdmin
SpecVoting == Init /\ [][NextVoting]_vars

\* cleared votes alone, from a fresh store
NextCleared ==
    \/ Tick
    \/ \E id \in Ids : addReport(id)
    \/ \E id \in Ids, d \in Devices : incrementClearedCount(id, d)
SpecCleared == InitFresh /\ [][NextCleared]_vars

\* every operation on the local store
NextStore ==
    \/ TickWeek
    \/ \E id \in Ids : addReport(id)
    \/ NextVotes
    \/ NextAdmin
    \/ NextModeration
    \/ \E ids \in SUBSET Ids : pushAcknowledged(ids)
SpecStore == InitFresh /\ [][NextStore]_vars

\* the votes of one client, synchronisation, and the votes of other clients
NextSynced ==
    \/ Tick
    \/ \E id \in Ids : addReport(id)
    \/ \E id \in Ids : incrementClearedCount(id, LocalDevice)
    \/ \E id \in Ids : incrementStillThereCount(id, LocalDevice)
    \/ \E failed \in SUBSET Ids : syncPendingToFirestore(failed)
    \/ \E failed \in SUBSET Ids : fullSync(failed)
    \/ fullSyncFailed
    \/ realtimeCallback
    \/ NextPeer
SpecSync == InitFresh /\ [][NextSynced]_vars

\* pushes of one client over several reports, with another client's votes
NextPush ==
    \/ TickDay
    \/ \E id \in EngineIds : addReport(id)
    \/ \E id \in EngineIds : incrementClearedCount(id, LocalDevice)
    \/ \E id \in EngineIds : toggleFlagged(id)
    \/ \E id \in EngineIds : peerCleared(id, MaxDevices)
    \/ \E failed \in SUBSET EngineIds : syncPendingToFirestore(failed)
SpecPush == InitFresh /\ [][NextPush]_vars

\* the session of initializeSync on one client: local changes, pushes,
\* connectivity, notifications and other clients' votes
NextEngine ==
    \/ TickDay
    \/ \E id \in Ids : addReport(id)
    \/ \E id \in Ids : toggleNoGlassFound(id)
    \/ \E id \in Ids : incrementClearedCount(id, LocalDevice)
    \/ \E id \in Ids, d \in PeerDevices : peerCleared(id, d)
    \/ \E failed \in SUBSET Ids :
          \* offline, no write reaches the remote store
          /\ online \/ failed = getPendingReports(reports)
          /\ syncPendingToFirestore(failed)
    \/ \E fetched \in BOOLEAN, failed \in SUBSET Ids : initializeSync(fetched, failed)
    \/ \E fetched \in BOOLEAN, failed \in SUBSET Ids : handleOnline(fetched, failed)
    \/ handleOffline
    \/ notification
    \/ cleanup
SpecEngine == InitFresh /\ [][NextEngine]_vars

\* the sweep of old resolved reports over a store that holds rows of several
\* ages: six days, exactly seven days, a millisecond more, and eight days
SweepAges == {6 * DayMs, SevenDaysMs, SevenDaysMs + 1, 8 * DayMs}

\* a stored row last modified at the given age before the first sweep:
\* resolved or not, never archived, unarchived or archived when last modified
SweepRows(id) ==
    {Assign(fullReport(newReport(id, SweepNow - a), SweepNow - a),
            [resolved |-> r, archived |-> ar,
             archivedAt |-> IF ar = Some(TRUE) THEN Some(SweepNow - a) ELSE None]) :
        a \in SweepAges, r \in BOOLEAN, ar \in {None, Some(FALSE), Some(TRUE)}}

SweepTables ==
    UNION {{tbl \in [S -> UNION {SweepRows(i) : i \in S}] : \A i \in S : tbl[i].id = i} :
             S \in SUBSET EngineIds}

InitSweep ==
    /\ now = SweepNow
    /\ dbVersion = CurrentVersion
    /\ remote = <<>>
    /\ online = TRUE
    /\ listening = FALSE
    /\ handlers = FALSE
    /\ InitDetector
    /\ InitWatch
    /\ InitTasks
    /\ reports \in SweepTables

NextSweep ==
    \/ TickSweep
    \/ autoArchiveOldResolvedReports
    \/ \E id \in EngineIds : markAsResolved(id)
SpecSweep == InitSweep /\ [][NextSweep]_vars

\* The upgrade of a database stored at version 1, 2 or 3. A row holds the
\* fields of its version; Dexie stores whatever properties an object has, so
\* a row may also hold fields of a later version already.
StoredFieldsV2 ==
    [stillThereCount |-> Some(1),
     stillThereConfirmations |->
        Some(<<[deviceId |-> 2, timestamp |-> toISOString(BaseTime)]>>),
     clearedConfirmations |->
        Some(<<[deviceId |-> 3, timestamp |-> toISOString(BaseTime)]>>),
     syncStatus |-> Some("synced"),
     lastModified |-> Some(BaseTime)]

StoredFieldsV3 == [archived |-> Some(TRUE), flagged |-> Some(TRUE)]

StoredFieldsV4 == [noGlassFound |-> Some(TRUE)]

StoredRows(version, id) ==
    {Assign(Assign(Assign(V1Row(id, c, r),
                          IF has2 THEN StoredFieldsV2 ELSE <<>>),
                   IF has3 THEN StoredFieldsV3 ELSE <<>>),
            IF has4 THEN StoredFieldsV4 ELSE <<>>) :
        c \in 0..MaxV1Cleared, r \in BOOLEAN,
        has2 \in {b \in BOOLEAN : version >= 2 => b},
        has3 \in {b \in BOOLEAN : version >= 3 => b},
        has4 \in BOOLEAN}

StoredTables(version) ==
    UNION {{tbl \in [S -> UNION {StoredRows(version, i) : i \in S}] :
                \A i \in S : tbl[i].id = i} :
             S \in (SUBSET EngineIds) \ {{}}}

InitMigration ==
    /\ now = BaseTime
    /\ remote = <<>>
    /\ online = TRUE
    /\ listening = FALSE
    /\ handlers = FALSE
    /\ InitDetector
    /\ InitWatch
    /\ InitTasks
    /\ dbVersion \in 1..(CurrentVersion - 1)
    /\ reports \in StoredTables(dbVersion)

NextMigration == TickDay \/ upgrade
SpecMigration == InitMigration /\ [][NextMigration]_vars

\* the administrative override over several reports with votes on them
NextBulk ==
    \/ \E id \in EngineIds : addReport(id)
    \/ \E id \in EngineIds, d \in Devices : incrementClearedCount(id, d)
    \/ \E id \in EngineIds : incrementStillThereCount(id, LocalDevice)
    \/ \E ids \in SUBSET EngineIds : bulkMarkResolved(ids)
SpecBulk == InitFresh /\ [][NextBulk]_vars

\* the two moderation flags over several reports that are voted on, resolved
\* and archived
NextFlags ==
    \/ TickDay
    \/ \E id \in EngineIds : addReport(id)
    \/ \E id \in EngineIds : incrementClearedCount(id, LocalDevice)
    \/ \E id \in EngineIds : markAsResolved(id)
    \/ \E id \in EngineIds : archiveReport(id)
    \/ \E id \in EngineIds : toggleFlagged(id)
    \/ \E id \in EngineIds : toggleNoGlassFound(id)
SpecFlags == InitFresh /\ [][NextFlags]_vars

\* pulls and pushes of a client that adds, votes on and deletes reports,
\* with another client's votes
NextPull ==
    \/ TickDay
    \/ \E id \in EngineIds : addReport(id)
    \/ \E id \in EngineIds : deleteReport(id)
    \/ \E id \in EngineIds : incrementClearedCount(id, LocalDevice)
    \/ \E id \in EngineIds : peerCleared(id, MaxDevices)
    \/ realtimeCallback
    \/ \E failed \in SUBSET EngineIds : syncPendingToFirestore(failed)
    \/ \E failed \in SUBSET EngineIds : fullSync(failed)
SpecPull == InitFresh /\ [][NextPull]_vars

\* the resources of a session: the listeners and the subscription of
\* initializeSync and the geolocation watch of the detector, from mount to
\* unmount
NextResources ==
    \/ TickDay
    \/ \E id \in Ids : addReport(id)
    \/ toggle
    \/ rewatch
    \/ \E fetched \in BOOLEAN : initializeSync(fetched, {})
    \/ handleOffline
    \/ \E fetched \in BOOLEAN : handleOnline(fetched, {})
    \/ cleanup
    \/ unmount
SpecResources == InitFresh /\ [][NextResources]_vars

\* a push suspended at its awaits while the client goes on changing the
\* report
NextPushRace ==
    \/ TickDay
    \/ \E id \in Ids : addReport(id)
    \/ \E id \in Ids : incrementClearedCount(id, LocalDevice)
    \/ \E id \in Ids : toggleFlagged(id)
    \/ syncPendingRead
    \/ \E failed \in SUBSET Ids : syncPendingWrite(failed)
    \/ syncPendingMark
SpecPushRace == InitFresh /\ [][NextPushRace]_vars

\* a merge suspended at its awaits while the client goes on changing the
\* report, with another client's votes
NextMergeRace ==
    \/ TickDay
    \/ \E id \in Ids : addReport(id)
    \/ \E id \in Ids : incrementClearedCount(id, LocalDevice)
    \/ \E id \in Ids : peerCleared(id, MaxDevices)
    \/ syncPendingToFirestore({})
    \/ callbackRead
    \/ callbackWrite
    \/ fullSyncRead
    \/ \E failed \in SUBSET Ids : fullSyncWrite(failed)
SpecMergeRace == InitFresh /\ [][NextMergeRace]_vars

\* calls of incrementClearedCount on one store, suspended at their awaits
NextCastRace ==
    \/ TickDay
    \/ \E id \in Ids : addReport(id)
    \/ \E k \in Calls, id \in Ids, d \in Devices : castGet(k, id, d)
    \/ \E k \in Calls : castUpdate(k)
SpecCastRace == InitFresh /\ [][NextCastRace]_vars

\* the cleared votes of three devices on their clients: this client, which
\* goes offline and online, and two clients in step with the remote store
NextQuorum ==
    \/ TickDay
    \/ \E id \in Ids : addReport(id)
    \/ \E id \in Ids, failed \in SUBSET Ids : handleCleared(id, failed)
    \/ \E id \in Ids, d \in PeerDevices : peerHandleCleared(id, d)
    \/ \E failed \in SUBSET Ids :
          /\ online \/ failed = getPendingReports(reports)
          /\ syncPendingToFirestore(failed)
    \/ \E fetched \in BOOLEAN, failed \in SUBSET Ids : initializeSync(fetched, failed)
    \/ \E fetched \in BOOLEAN, failed \in SUBSET Ids : handleOnline(fetched, failed)
    \/ handleOffline
    \/ notification
SpecQuorum == InitFresh /\ [][NextQuorum]_vars

Next == NextQuorum \/ NextCastRace \/ NextMergeRace \/ NextPushRace \/ NextResources \/ NextPull \/ NextFlags \/ NextBulk \/ NextMigration \/ NextProximity \/ NextSweep \/ NextVoting \/ NextModeration \/ NextSync \/ NextPeer \/ TickWeek \/ NextPush \/ NextEngine
Spec == Init /\ [][Next]_vars

----------------------------------------------------------------------------
(* What the claims speak of, read off a row without the program's helpers. *)

Stored(id) == id \in DOMAIN reports
StoredAfter(id) == id \in DOMAIN reports'

ClearedDevices(report) ==
    {clearedLedger(report)[i].deviceId : i \in 1..Len(clearedLedger(report))}

StillThereDevices(report) ==
    {stillThereLedger(report)[i].deviceId : i \in 1..Len(stillThereLedger(report))}

\* the ages, at instant t, of the still-there entries of a device
StillThereAges(report, deviceId, t) ==
    {t - getTime(stillThereLedger(report)[i].timestamp) :
        i \in {j \in 1..Len(stillThereLedger(report)) :
                 stillThereLedger(report)[j].deviceId = deviceId}}

\* the step is a cleared vote of the device that the store accepted
ClearedAccepted(id, deviceId) ==
    /\ Stored(id)
    /\ deviceId \notin ClearedDevices(reports[id])
    /\ incrementClearedCount(id, deviceId)

\* the step is a still-there vote of the device that the store accepted
StillThereAccepted(id, deviceId) ==
    /\ Stored(id)
    /\ \A a \in StillThereAges(reports[id], deviceId, now) : a >= DayMs
    /\ incrementStillThereCount(id, deviceId)

----------------------------------------------------------------------------
(* C1. From a fresh report, under cleared votes of distinct devices only,  *)
(* resolved is false after the first and the second vote and true from the *)
(* third: a report is resolved exactly when three devices have voted.      *)

C1_ResolvedOnThirdCleared ==
    \A id \in DOMAIN reports :
        /\ Cardinality(ClearedDevices(reports[id])) = Len(clearedLedger(reports[id]))
        /\ reports[id].resolved <=> (Len(clearedLedger(reports[id])) >= 3)

C1_Witness ==
    \E id \in DOMAIN reports :
        Len(clearedLedger(reports[id])) = 3 /\ reports[id].resolved

----------------------------------------------------------------------------
(* C2. A cleared vote of a device already in the cleared ledger returns    *)
(* success = false, alreadyConfirmed = true and changes nothing.           *)

C2_DuplicateClearedRejected ==
    [][\A id \in Ids, d \in Devices :
         (Stored(id) /\ d \in ClearedDevices(reports[id]))
         => /\ clearedResult(reports, id, d) = [success |-> FALSE, alreadyConfirmed |-> TRUE]
            /\ incrementClearedCount(id, d) => reports' = reports]_vars

C2_Witness ==
    \E id \in DOMAIN reports :
        /\ LocalDevice \in ClearedDevices(reports[id])
        /\ reports[id].clearedCount = 1
        /\ Len(clearedLedger(reports[id])) = 1

----------------------------------------------------------------------------
(* C3. The second accepted still-there vote, by a device other than the    *)
(* first one's, leaves the report with clearedCount = 0, an empty cleared  *)
(* ledger and resolved = false; so does it for a report that three cleared *)
(* votes had resolved.                                                     *)

C3_RebuttalResets ==
    [][\A id \in Ids, d \in Devices :
         (/\ StillThereAccepted(id, d)
          /\ StillThereDevices(reports[id]) \ {d} # {})
         => /\ reports'[id].clearedCount = 0
            /\ reports'[id].clearedConfirmations = Some(<<>>)
            /\ reports'[id].resolved = FALSE]_vars

\* two devices have voted still-there and the cleared progress is gone
C3_Witness ==
    \E id \in DOMAIN reports :
        /\ Len(stillThereLedger(reports[id])) = 2
        /\ stillThereLedger(reports[id])[1].deviceId # stillThereLedger(reports[id])[2].deviceId
        /\ reports[id].stillThereCount = Some(2)
        /\ reports[id].clearedCount = 0
        /\ reports[id].clearedConfirmations = Some(<<>>)
        /\ ~reports[id].resolved

----------------------------------------------------------------------------
(* C4. As claimed: an accepted still-there vote that brings the ledger to  *)
(* fewer than two entries leaves the cleared ledger, clearedCount and      *)
(* resolved as they were.                                                  *)

C4_FirstStillThereKeepsResolved ==
    [][\A id \in Ids, d \in Devices :
         (/\ StillThereAccepted(id, d)
          /\ Len(stillThereLedger(reports[id])) + 1 < 2)
         => /\ reports'[id].clearedConfirmations = reports[id].clearedConfirmations
            /\ reports'[id].clearedCount = reports[id].clearedCount
            /\ reports'[id].resolved = reports[id].resolved]_vars

(* C4, amended. Such a vote appends its entry to the still-there ledger,   *)
(* leaves the cleared ledger and clearedCount as they were, and sets       *)
(* resolved to false.                                                      *)

C4_FirstStillThereUnresolves ==
    [][\A id \in Ids, d \in Devices :
         (/\ StillThereAccepted(id, d)
          /\ Len(stillThereLedger(reports[id])) + 1 < 2)
         => /\ reports'[id].stillThereConfirmations =
                   Some(<<[deviceId |-> d, timestamp |-> toISOString(now)]>>)
            /\ reports'[id].stillThereCount = Some(1)
            /\ reports'[id].clearedConfirmations = reports[id].clearedConfirmations
            /\ reports'[id].clearedCount = reports[id].clearedCount
            /\ reports'[id].resolved = FALSE]_vars

\* a first still-there vote has left the three cleared votes of a resolved
\* report in place and has taken resolved from it
C4_Witness ==
    \E id \in DOMAIN reports :
        /\ Len(stillThereLedger(reports[id])) = 1
        /\ reports[id].stillThereCount = Some(1)
        /\ Len(clearedLedger(reports[id])) = 3
        /\ reports[id].clearedCount = 3
        /\ ~reports[id].resolved

----------------------------------------------------------------------------
(* C5. As claimed: an accepted cleared vote never takes resolved from true *)
(* to false; after it resolved is true if it was true before or if the    *)
(* resulting clearedCount is at least 3.                                   *)

C5_ClearedNeverUnresolves ==
    [][\A id \in Ids, d \in Devices :
         (/\ ClearedAccepted(id, d)
          /\ reports[id].resolved \/ reports'[id].clearedCount >= 3)
         => reports'[id].resolved]_vars

----------------------------------------------------------------------------
(* C6. A still-there vote of a device that has an entry less than 24 hours *)
(* old returns alreadyConfirmed = true and changes nothing; when all the   *)
(* entries of the device are more than 24 hours old the vote succeeds and  *)
(* appends a new entry.                                                    *)

C6_StillThereCooldown ==
    [][\A id \in Ids, d \in Devices :
         Stored(id) =>
           /\ (\E a \in StillThereAges(reports[id], d, now) : a >= 0 /\ a < DayMs)
              => /\ stillThereResult(reports, id, d, now)
                      = [success |-> FALSE, alreadyConfirmed |-> TRUE]
                 /\ incrementStillThereCount(id, d) => reports' = reports
           /\ (/\ StillThereAges(reports[id], d, now) # {}
               /\ \A a \in StillThereAges(reports[id], d, now) : a > DayMs)
              => /\ stillThereResult(reports, id, d, now)
                      = [success |-> TRUE, alreadyConfirmed |-> FALSE]
                 /\ incrementStillThereCount(id, d)
                    => stillThereLedger(reports'[id]) =
                         Append(stillThereLedger(reports[id]),
                                [deviceId |-> d, timestamp |-> toISOString(now)])]_vars

\* a device has two entries: its vote after the 24 hours was accepted
C6_Witness ==
    \E id \in DOMAIN reports :
        /\ Len(stillThereLedger(reports[id])) = 2
        /\ stillThereLedger(reports[id])[1].deviceId = stillThereLedger(reports[id])[2].deviceId
        /\ getTime(stillThereLedger(reports[id])[2].timestamp)
             - getTime(stillThereLedger(reports[id])[1].timestamp) > DayMs

----------------------------------------------------------------------------
(* C7. As claimed: in every state of an opened store each report has       *)
(* clearedCount equal to the number of its cleared entries and             *)
(* stillThereCount equal to the number of its still-there entries.         *)

C7_CountsMatchLedgers ==
    Opened =>
      \A id \in DOMAIN reports :
        /\ reports[id].clearedCount = Len(clearedLedger(reports[id]))
        /\ Nullish(reports[id].stillThereCount, 0) = Len(stillThereLedger(reports[id]))

----------------------------------------------------------------------------
(* C8. In every state no device occurs twice in a cleared ledger, and no   *)
(* device has two still-there entries less than 24 hours apart.            *)

C8_OneEntryPerDevice ==
    \A id \in DOMAIN reports :
        /\ \A i, j \in 1..Len(clearedLedger(reports[id])) :
              i # j => clearedLedger(reports[id])[i].deviceId
                         # clearedLedger(reports[id])[j].deviceId
        /\ \A i, j \in 1..Len(stillThereLedger(reports[id])) :
              (/\ i < j
               /\ stillThereLedger(reports[id])[i].deviceId
                    = stillThereLedger(reports[id])[j].deviceId)
              => getTime(stillThereLedger(reports[id])[j].timestamp)
                   - getTime(stillThereLedger(reports[id])[i].timestamp) >= DayMs

\* a row that went through synchronisation holds two entries of one device
C8_Witness ==
    \E id \in DOMAIN reports :
        /\ reports[id].syncStatus = Some("synced")
        /\ Len(stillThereLedger(reports[id])) = 2
        /\ stillThereLedger(reports[id])[1].deviceId = stillThereLedger(reports[id])[2].deviceId
        /\ Len(clearedLedger(reports[id])) >= 1

----------------------------------------------------------------------------
(* C9. On the local store resolved goes from false to true only by a       *)
(* cleared vote that brings clearedCount to 3 or more, or by the           *)
(* administrative override (markAsResolved, bulkMarkResolved); a report is *)
(* created unresolved.                                                     *)

C9_ResolvedOnlyByVotesOrOverride ==
    [][\A id \in Ids :
         /\ (~Stored(id) /\ StoredAfter(id)) => ~reports'[id].resolved
         /\ (Stored(id) /\ StoredAfter(id) /\ ~reports[id].resolved /\ reports'[id].resolved)
            => \/ \E d \in Devices :
                     incrementClearedCount(id, d) /\ reports'[id].clearedCount >= 3
               \/ markAsResolved(id)
               \/ \E ids \in SUBSET Ids : id \in ids /\ bulkMarkResolved(ids)]_vars

\* a report resolved by the override with fewer than three votes was archived
\* and its push acknowledged
C9_Witness ==
    \E id \in DOMAIN reports :
        /\ reports[id].resolved
        /\ reports[id].clearedCount < 3
        /\ reports[id].archived = Some(TRUE)
        /\ reports[id].syncStatus = Some("synced")

----------------------------------------------------------------------------
(* C10. As claimed: every local change of a row leaves it with a strictly  *)
(* greater lastModified and syncStatus = pending, but for the              *)
(* acknowledgement of a push, which sets syncStatus = synced.              *)

C10_MutationsStampAndPend ==
    [][\A id \in Ids :
         (Stored(id) /\ StoredAfter(id) /\ reports'[id] # reports[id])
         => \/ /\ \E ids \in SUBSET Ids : pushAcknowledged(ids)
               /\ reports'[id].syncStatus = Some("synced")
            \/ /\ Nullish(reports'[id].lastModified, 0) > Nullish(reports[id].lastModified, 0)
               /\ reports'[id].syncStatus = Some("pending")]_vars

----------------------------------------------------------------------------
(* mergeReports on its own: the local rows and the remote documents are    *)
(* drawn from the rows and documents the program makes, with every order   *)
(* of their timestamps, and the notification callback merges them.         *)

MergeIds == EngineIds
MergeTimes == {BaseTime, BaseTime + DayMs}

\* a stored row of the report: modified at t, pending or pushed, flagged or not
LocalRows(id) ==
    {Assign(fullReport(newReport(id, BaseTime), BaseTime),
            [lastModified |-> Some(t), syncStatus |-> Some(st), flagged |-> Some(f),
             firebaseId |-> IF st = "synced" THEN Some(id) ELSE None]) :
        t \in MergeTimes, st \in {"pending", "synced"}, f \in BOOLEAN}

\* a document of the report: written at server time t, flagged or not
RemoteDocs(id) ==
    {toRealtimeDbReport(
        Assign(fullReport(newReport(id, BaseTime), BaseTime), [flagged |-> Some(f)]), t) :
        t \in MergeTimes, f \in BOOLEAN}

\* the stores and the snapshots over the ids, each record under its own id
LocalTables ==
    UNION {{tbl \in [S -> UNION {LocalRows(i) : i \in S}] : \A i \in S : tbl[i].id = i} :
             S \in SUBSET MergeIds}

RemoteTables ==
    UNION {{docs \in [S -> UNION {RemoteDocs(i) : i \in S}] : \A i \in S : docs[i].id = i} :
             S \in SUBSET MergeIds}

InitMerge ==
    /\ now = BaseTime + DayMs
    /\ dbVersion = CurrentVersion
    /\ online = TRUE
    /\ listening = TRUE
    /\ handlers = TRUE
    /\ InitDetector
    /\ InitWatch
    /\ InitTasks
    /\ reports \in LocalTables
    /\ remote \in RemoteTables

SpecMerge == InitMerge /\ [][realtimeCallback]_vars

Range(f) == {f[i] : i \in DOMAIN f}

----------------------------------------------------------------------------
(* C11. For an id on both sides the merged record is the remote record     *)
(* with syncStatus = synced if and only if the remote lastModified is      *)
(* greater than the local one; otherwise (local newer, or equal, pending   *)
(* or synced) it is the local record unchanged.                            *)

C11_RemoteWinsIffNewer ==
    [][realtimeCallback =>
         \A id \in DOMAIN reports \cap DOMAIN remote :
            LET localReport == reports[id]
                remoteReport == fromRealtimeDbReport(remote[id], id)
            IN  IF remoteReport.lastModified[1] > localReport.lastModified[1]
                THEN reports'[id] = [remoteReport EXCEPT !.syncStatus = Some("synced")]
                ELSE reports'[id] = localReport]_vars

\* after a merge: one report was taken from the remote side, another is the
\* pending local row although the remote document has the same timestamp
C11_Witness ==
    \E a, b \in DOMAIN reports \cap DOMAIN remote :
        /\ a # b
        /\ reports[a] = fromRealtimeDbReport(remote[a], a)
        /\ reports[b].syncStatus = Some("pending")
        /\ reports[b].lastModified = Some(remote[b].updatedAt)
        /\ reports[b].flagged # Some(remote[b].flagged)

----------------------------------------------------------------------------
(* C12. The merge returns one record for every id of the local rows or of  *)
(* the remote snapshot and for no other id; an id on the local side only   *)
(* keeps the local record unchanged, an id on the remote side only gets    *)
(* the remote record, whose syncStatus is synced.                          *)

C12_MergeCoversUnion ==
    [][realtimeCallback =>
         /\ DOMAIN reports' = DOMAIN reports \cup DOMAIN remote
         /\ \A id \in DOMAIN reports \ DOMAIN remote : reports'[id] = reports[id]
         /\ \A id \in DOMAIN remote \ DOMAIN reports :
               /\ reports'[id] = fromRealtimeDbReport(remote[id], id)
               /\ reports'[id].syncStatus = Some("synced")]_vars

\* after a merge: a pending report of the local side only, beside a report
\* that is the remote record
C12_Witness ==
    \E a, b \in DOMAIN reports :
        /\ a \notin DOMAIN remote
        /\ reports[a].syncStatus = Some("pending")
        /\ b \in DOMAIN remote
        /\ reports[b] = fromRealtimeDbReport(remote[b], b)

----------------------------------------------------------------------------
(* C13. When the two inputs have no id in common, mergeReports(A, B) and   *)
(* mergeReports(B, A) hold the same set of records.                        *)

C13_MergeCommutesOnDisjoint ==
    (DOMAIN reports \cap DOMAIN remote = {})
    => Range(mergeReports(reports, remoteReports(remote)))
         = Range(mergeReports(remoteReports(remote), reports))

\* the two sides are not empty and share no id, and the local one is pending
C13_Witness ==
    /\ DOMAIN reports # {}
    /\ DOMAIN remote # {}
    /\ DOMAIN reports \cap DOMAIN remote = {}
    /\ \E a \in DOMAIN reports : reports[a].syncStatus = Some("pending")

----------------------------------------------------------------------------
(* C14. In one run of syncPendingToFirestore over several pending records  *)
(* a rejected write leaves its record pending and its document as it was,  *)
(* every other pending record is written and marked synced, and the run    *)
(* ends normally, reporting the number of failures.                        *)

C14_PushFailuresArePerRecord ==
    [][\A failed \in SUBSET EngineIds :
         syncPendingToFirestore(failed) =>
            /\ \A id \in failed :
                  /\ reports'[id] = reports[id]
                  /\ reports'[id].syncStatus = Some("pending")
                  /\ (id \in DOMAIN remote => remote'[id] = remote[id])
                  /\ (id \notin DOMAIN remote => id \notin DOMAIN remote')
            /\ \A id \in getPendingReports(reports) \ failed :
                  /\ id \in DOMAIN remote'
                  /\ remote'[id] = toRealtimeDbReport(reports[id], now)
                  /\ reports'[id].syncStatus = Some("synced")
            /\ syncFailedToast(failed) =
                  (IF failed = {} THEN None ELSE Some(Cardinality(failed)))]_vars

\* of two reports created at the same instant one is written and synced, the
\* other is still pending and has no document
C14_Witness ==
    \E a, b \in DOMAIN reports :
        /\ reports[a].lastModified = reports[b].lastModified
        /\ reports[a].syncStatus = Some("pending")
        /\ a \notin DOMAIN remote
        /\ reports[b].syncStatus = Some("synced")
        /\ b \in DOMAIN remote
        /\ remote[b].updatedAt = reports[b].lastModified[1]

----------------------------------------------------------------------------
(* C15. For a pending record whose write succeeds the push replaces the    *)
(* whole remote document by the document of the record as it is, and the   *)
(* local record gets syncStatus = synced and its firebaseId; lastModified  *)
(* and every other local field stay as they were.                          *)

C15_PushOverwritesAndMarks ==
    [][\A failed \in SUBSET EngineIds :
         syncPendingToFirestore(failed) =>
            \A id \in getPendingReports(reports) \ failed :
               /\ remote'[id] = toRealtimeDbReport(reports[id], now)
               /\ reports'[id] = [reports[id] EXCEPT !.syncStatus = Some("synced"),
                                                     !.firebaseId = Some(id)]]_vars

\* a pushed record whose document was written after the record was last
\* modified: the record has kept its lastModified
C15_Witness ==
    \E id \in DOMAIN reports \cap DOMAIN remote :
        /\ reports[id].syncStatus = Some("synced")
        /\ reports[id].firebaseId = Some(id)
        /\ remote[id] = toRealtimeDbReport(reports[id], remote[id].updatedAt)
        /\ reports[id].lastModified[1] < remote[id].updatedAt
        /\ reports[id].clearedCount = 0

----------------------------------------------------------------------------
(* C16. When the fetch of the remote snapshot fails during fullSync, here  *)
(* the fullSync of an online transition, the local store and the remote    *)
(* documents are as before, no write is attempted, and fullSync returns    *)
(* the local records.                                                      *)

C16_FetchFailureKeepsStore ==
    [][\A failed \in SUBSET Ids :
         (handlers /\ handleOnline(FALSE, failed)) =>
            /\ reports' = reports
            /\ remote' = remote
            /\ fullSyncAttempts(reports, remote, FALSE) = {}
            /\ fullSyncResult(reports, remote, FALSE) = reports]_vars

\* the client came online with a pending record, and the record is still
\* pending and still without a document
C16_Witness ==
    /\ handlers
    /\ online
    /\ ~listening
    /\ \E id \in DOMAIN reports :
          /\ reports[id].syncStatus = Some("pending")
          /\ id \notin DOMAIN remote

----------------------------------------------------------------------------
(* C17. As claimed: every merge that completes, that of a notification     *)
(* included, is followed by an attempt to push every record that is        *)
(* pending after it.                                                       *)

C17_MergeThenPushAttempt ==
    [][(online /\ listening /\ realtimeCallback) =>
          callbackAttempts(reports, remote) = getPendingReports(reports')]_vars

----------------------------------------------------------------------------
(* C18. As claimed: on an online transition after initializeSync, the      *)
(* remote being reachable, every pending record is written to the remote   *)
(* store.                                                                  *)

----------------------------------------------------------------------------
(* C19. As claimed: a client that has run initializeSync and is online     *)
(* gets every notification of the remote store, its callback being         *)
(* subscribed, also when it was offline at initializeSync and came online  *)
(* later.                                                                  *)

C19_OnlineClientIsSubscribed ==
    (handlers /\ online) => listening

----------------------------------------------------------------------------
(* C20. As claimed: when the client is online and subscribed and neither a *)
(* fullSync nor a notification changes anything any more, no record is     *)
(* pending and the local record of every id has the field values of the    *)
(* record other clients read from the remote document.                     *)

Quiescent ==
    /\ handlers /\ listening /\ online
    /\ fullSyncStore(reports, remote, TRUE, {}) = reports
    /\ fullSyncDocs(reports, remote, TRUE, {}, now) = remote
    /\ mergeReports(reports, remoteReports(remote)) = reports

\* the fields of a report, an absent flag read as false
ReportFields(report) ==
    [id |-> report.id, lat |-> report.lat, lng |-> report.lng, desc |-> report.desc,
     photoBase64 |-> report.photoBase64, photoUrl |-> report.photoUrl,
     date |-> report.date, clearedCount |-> report.clearedCount,
     resolved |-> report.resolved,
     stillThereCount |-> Nullish(report.stillThereCount, 0),
     stillThereConfirmations |-> stillThereLedger(report),
     clearedConfirmations |-> clearedLedger(report),
     lastModified |-> report.lastModified,
     archived |-> Nullish(report.archived, FALSE),
     archivedAt |-> report.archivedAt,
     flagged |-> Nullish(report.flagged, FALSE),
     noGlassFound |-> Nullish(report.noGlassFound, FALSE)]

C20_QuiescentClientsAgree ==
    Quiescent =>
       /\ DOMAIN reports = DOMAIN remote
       /\ \A id \in DOMAIN reports :
             /\ reports[id].syncStatus = Some("synced")
             /\ ReportFields(reports[id])
                  = ReportFields(fromRealtimeDbReport(remote[id], id))

----------------------------------------------------------------------------
(* C21. Pushing a record and reading its document back yields a record     *)
(* equal to the pushed one in every field other than syncStatus,           *)
(* lastModified and firebaseId: id, location, description, photo, date,    *)
(* ledgers and counts, resolved, archived, archivedAt, flagged and         *)
(* noGlassFound.                                                           *)

\* the fields a round trip is to preserve, an absent flag read as false
PreservedFields(report) ==
    [id |-> report.id, lat |-> report.lat, lng |-> report.lng, desc |-> report.desc,
     photoBase64 |-> report.photoBase64, photoUrl |-> report.photoUrl,
     date |-> report.date, clearedCount |-> report.clearedCount,
     resolved |-> report.resolved,
     stillThereCount |-> Nullish(report.stillThereCount, 0),
     stillThereConfirmations |-> stillThereLedger(report),
     clearedConfirmations |-> clearedLedger(report),
     archived |-> Nullish(report.archived, FALSE),
     archivedAt |-> report.archivedAt,
     flagged |-> Nullish(report.flagged, FALSE),
     noGlassFound |-> Nullish(report.noGlassFound, FALSE)]

C21_RoundTripPreservesFields ==
    [][\A failed \in SUBSET Ids :
         syncPendingToFirestore(failed) =>
            \A id \in getPendingReports(reports) \ failed :
               /\ id \in DOMAIN remote'
               /\ PreservedFields(fromRealtimeDbReport(remote'[id], id))
                    = PreservedFields(reports[id])]_vars

----------------------------------------------------------------------------
(* C22. The sweep of old resolved reports is idempotent: after one run, a  *)
(* second run with no operation in between selects no report, returns 0    *)
(* and changes no record; and a report the first run archived is not       *)
(* archived again by a run at any later instant.                           *)

\* instants of a later run: at once, a millisecond on, and past seven days
LaterRuns(t) == {t, t + 1, t + SevenDaysMs, t + SevenDaysMs + 1, t + 8 * DayMs}

C22_SweepIdempotent ==
    [][autoArchiveOldResolvedReports =>
         /\ autoArchiveResult(reports', now) = 0
         /\ autoArchiveStore(reports', now) = reports'
         /\ \A id \in DOMAIN reports :
               reports'[id] # reports[id] =>
                  \A t \in LaterRuns(now) :
                     autoArchiveStore(reports', t)[id] = reports'[id]]_vars

\* a sweep has archived a report at this instant and, with another resolved
\* report too young to archive, another run selects nothing
C22_Witness ==
    /\ \E id \in DOMAIN reports :
          /\ reports[id].resolved
          /\ reports[id].archived = Some(TRUE)
          /\ reports[id].archivedAt = Some(now)
          /\ reports[id].lastModified = Some(now)
    /\ \E id \in DOMAIN reports :
          /\ reports[id].resolved
          /\ NotTruthy(reports[id].archived)
    /\ autoArchiveResult(reports, now) = 0

----------------------------------------------------------------------------
(* C23. One sweep sets archived = true and archivedAt = now on exactly the *)
(* reports that are resolved, not archived and last modified more than     *)
(* seven days before now, and leaves every other report unchanged: a       *)
(* report eight days old is archived, one six or exactly seven days old    *)
(* is not.                                                                 *)

C23_SweepArchivesExactlyOld ==
    [][autoArchiveOldResolvedReports =>
         /\ DOMAIN reports' = DOMAIN reports
         /\ \A id \in DOMAIN reports :
               IF /\ reports[id].resolved
                  /\ Nullish(reports[id].archived, FALSE) = FALSE
                  /\ now - reports[id].lastModified[1] > SevenDaysMs
               THEN /\ reports'[id].archived = Some(TRUE)
                    /\ reports'[id].archivedAt = Some(now)
                    /\ \A f \in DOMAIN reports[id] \
                                 {"archived", "archivedAt", "lastModified", "syncStatus"} :
                          reports'[id][f] = reports[id][f]
               ELSE reports'[id] = reports[id]]_vars

\* one sweep met a resolved report eight days old and one six days old: the
\* first is archived at this instant, the second is as it was
C23_Witness ==
    /\ now = SweepNow
    /\ \E a, b \in DOMAIN reports :
          /\ reports[a].resolved
          /\ reports[a].archived = Some(TRUE)
          /\ reports[a].archivedAt = Some(now)
          /\ reports[a].date = toISOString(now - 8 * DayMs)
          /\ reports[b].resolved
          /\ NotTruthy(reports[b].archived)
          /\ reports[b].lastModified = Some(now - 6 * DayMs)

----------------------------------------------------------------------------
(* Claims about the proximity detector. A fix is processed when it moves   *)
(* lastCheck, and it is then the fix userLocation holds; the candidates    *)
(* are the reports of the page's list that are not resolved, not archived  *)
(* and not suppressed.                                                     *)

Candidates == activeReports(reports) \ suppressedIds
CandidatesAfter == activeReports(reports') \ suppressedIds'

\* the distance of a fix to a stored report
DistanceTo(position, id) == calculateDistance(position, reports[id].lat, reports[id].lng)

ProcessedFix ==
    /\ lastCheck' # lastCheck
    /\ userLocation' # None
    /\ checkProximity(userLocation'[1])

Fix == userLocation'[1]

----------------------------------------------------------------------------
(* C24. After each processed fix a candidate report is in the in-range set *)
(* if and only if its distance is at most 3 m, or it was in the in-range   *)
(* set before the fix and its distance is at most 6 m: a report first seen *)
(* at 5 m is not in range, one that entered at 2 m stays in range at 5 m   *)
(* and leaves at 7 m.                                                      *)

C24_InRangeWithHysteresis ==
    [][ProcessedFix =>
            \A id \in Candidates :
               id \in previouslyInProximity' <=>
                  \/ DistanceTo(Fix, id) <= 3
                  \/ id \in previouslyInProximity /\ DistanceTo(Fix, id) <= 6]_vars

\* at the last processed fix one candidate is in range at 5 m, which it can
\* only be by having been in range before, and another candidate at 5 m is
\* not in range
C24_Witness ==
    /\ userLocation # None
    /\ \E a, b \in Candidates :
          /\ a \in previouslyInProximity
          /\ DistanceTo(userLocation[1], a) = 5
          /\ b \notin previouslyInProximity
          /\ DistanceTo(userLocation[1], b) = 5

----------------------------------------------------------------------------
(* C25. The alert fires exactly when the latch goes from not triggered to  *)
(* triggered: on a processed fix where a report newly enters range while   *)
(* the detector is Idle; while the detector is Alerting no fix fires it,   *)
(* even one on which a further report newly enters range.                  *)

C25_AlertOncePerEpisode ==
    [][ProcessedFix =>
            LET entered == previouslyInProximity' \ previouslyInProximity
                fired == alertTriggered(previouslyInProximity', previouslyInProximity,
                                        hasTriggeredAlert)
            IN  /\ (~hasTriggeredAlert /\ entered # {}) => fired
                /\ hasTriggeredAlert => ~fired
                /\ fired <=> (~hasTriggeredAlert /\ hasTriggeredAlert')]_vars

\* the detector is Alerting with two reports in range, one of them at 5 m:
\* that one entered on an earlier fix
C25_Witness ==
    /\ hasTriggeredAlert
    /\ userLocation # None
    /\ \E a, b \in previouslyInProximity :
          /\ a # b
          /\ DistanceTo(userLocation[1], a) = 5
          /\ DistanceTo(userLocation[1], b) = 2

----------------------------------------------------------------------------
(* C26. A processed fix that leaves the in-range set empty after it was    *)
(* non-empty clears the latch and calls onAlertCleared, and fires no       *)
(* alert; on the next processed fix within 3 m of a candidate report the   *)
(* alert fires again.                                                      *)

C26_ExitClearsLatch ==
    [][(ProcessedFix /\ previouslyInProximity # {}
                      /\ previouslyInProximity' = {}) =>
            /\ ~hasTriggeredAlert'
            /\ alertCleared(previouslyInProximity', previouslyInProximity)
            /\ ~alertTriggered(previouslyInProximity', previouslyInProximity,
                               hasTriggeredAlert)
            /\ \A next \in Positions :
                  (\E id \in CandidatesAfter : DistanceTo(next, id) <= 3) =>
                     alertTriggered(
                        nearbyIds(reports', suppressedIds', previouslyInProximity', next),
                        previouslyInProximity', hasTriggeredAlert')]_vars

\* the detector is Idle with nothing in range after a second processed fix,
\* at 7 m from a candidate report
C26_Witness ==
    /\ ~hasTriggeredAlert
    /\ previouslyInProximity = {}
    /\ lastCheck >= BaseTime + 1000
    /\ userLocation # None
    /\ \E id \in Candidates : DistanceTo(userLocation[1], id) = 7

----------------------------------------------------------------------------
(* C27. A report that is archived, resolved or in the suppression set is   *)
(* not put in the in-range set by any processed fix and causes no alert,   *)
(* whatever its distance; and getActiveReports returns exactly the reports *)
(* that are not archived, resolved or not, before and after every step.    *)

Excluded ==
    {id \in DOMAIN reports :
        \/ reports[id].resolved
        \/ reports[id].archived = Some(TRUE)
        \/ id \in suppressedIds}

----------------------------------------------------------------------------
(* C28. Two fixes the detector processes are at least 1000 ms apart: a fix *)
(* is processed only when at least 1000 ms have passed since the last      *)
(* processed one, and a fix that arrives earlier changes neither the       *)
(* in-range set nor the latch nor the time of the last processed fix.      *)

FixStep == userLocation' # None /\ checkProximity(userLocation'[1])

C28_FixesDebounced ==
    [][/\ lastCheck' # lastCheck => lastCheck' - lastCheck >= 1000
       /\ FixStep =>
            IF now - lastCheck < 1000
            THEN UNCHANGED <<lastCheck, previouslyInProximity, hasTriggeredAlert,
                             userLocation>>
            ELSE lastCheck' = now]_vars

\* half a second after a processed fix that has put a report in range: a
\* fix that arrives now is dropped
C28_Witness ==
    /\ enabled
    /\ now - lastCheck = 500
    /\ previouslyInProximity # {}
    /\ hasTriggeredAlert

----------------------------------------------------------------------------
(* C29. Disabling the detector, in whatever state, empties the in-range    *)
(* set and clears the latch, so that the first fix processed after it is   *)
(* enabled again fires the alert if it is within 3 m of a candidate.       *)

C29_DisableResets ==
    [][(toggle /\ enabled) =>
         /\ ~enabled'
         /\ previouslyInProximity' = {}
         /\ ~hasTriggeredAlert'
         /\ \A next \in Positions :
               (\E id \in CandidatesAfter : DistanceTo(next, id) <= 3) =>
                  alertTriggered(
                     nearbyIds(reports', suppressedIds', previouslyInProximity', next),
                     previouslyInProximity', hasTriggeredAlert')]_vars

\* the detector has processed a fix and is disabled, with its state reset
\* and a candidate report in the store
C29_Witness ==
    /\ ~enabled
    /\ lastCheck >= BaseTime
    /\ previouslyInProximity = {}
    /\ ~hasTriggeredAlert
    /\ userLocation = None
    /\ Candidates # {}

----------------------------------------------------------------------------
(* C30. The upgrade to version 4 leaves id, lat, lng, desc and date of     *)
(* every row unchanged; a version 1 row gets stillThereCount = 0, empty    *)
(* still-there and cleared ledgers, syncStatus = pending, archived =       *)
(* false, flagged = false and noGlassFound = false; and a field of a later *)
(* version that already has a value in the row keeps it.                   *)

AddedFields ==
    {"stillThereCount", "stillThereConfirmations", "clearedConfirmations",
     "syncStatus", "lastModified", "archived", "flagged", "noGlassFound"}

BackfilledDefaults ==
    [stillThereCount |-> Some(0), stillThereConfirmations |-> Some(<<>>),
     clearedConfirmations |-> Some(<<>>), syncStatus |-> Some("pending"),
     archived |-> Some(FALSE), flagged |-> Some(FALSE), noGlassFound |-> Some(FALSE)]

C30_MigrationBackfills ==
    [][upgrade =>
         /\ dbVersion' = 4
         /\ DOMAIN reports' = DOMAIN reports
         /\ \A id \in DOMAIN reports :
               /\ \A f \in DOMAIN reports[id] \ AddedFields :
                     reports'[id][f] = reports[id][f]
               /\ \A f \in AddedFields :
                     reports[id][f] # None => reports'[id][f] = reports[id][f]
               /\ dbVersion = 1 =>
                     \A f \in DOMAIN BackfilledDefaults :
                        reports[id][f] = None => reports'[id][f] = BackfilledDefaults[f]]_vars

\* a version 1 database is upgraded a day after its rows were written: one
\* row has every default, with the date it had, and the other row has kept
\* the values it held
C30_Witness ==
    /\ dbVersion = 4
    /\ \E a, b \in DOMAIN reports :
          /\ \A f \in DOMAIN BackfilledDefaults : reports[a][f] = BackfilledDefaults[f]
          /\ reports[a].lastModified = Some(now)
          /\ reports[a].date = toISOString(BaseTime)
          /\ now > BaseTime
          /\ reports[b].stillThereCount = Some(1)
          /\ reports[b].syncStatus = Some("synced")
          /\ reports[b].lastModified = Some(BaseTime)
          /\ reports[b].archived = Some(TRUE)
          /\ reports[b].noGlassFound = Some(TRUE)

----------------------------------------------------------------------------
(* C31. bulkMarkResolved(ids) sets resolved = true and syncStatus =        *)
(* pending on every stored report whose id is listed, whatever its vote    *)
(* counts, and changes neither ledger nor count; a report whose id is not  *)
(* listed is unchanged, no report is added or removed, and an empty list   *)
(* changes nothing.                                                        *)

C31_BulkMarkResolvedFrame ==
    [][\A ids \in SUBSET EngineIds :
         bulkMarkResolved(ids)
         => /\ DOMAIN reports' = DOMAIN reports
            /\ \A id \in DOMAIN reports :
                 IF id \in ids
                 THEN /\ reports'[id].resolved
                      /\ reports'[id].syncStatus = Some("pending")
                      /\ \A f \in DOMAIN reports[id] \ {"resolved", "syncStatus", "lastModified"} :
                            reports'[id][f] = reports[id][f]
                 ELSE reports'[id] = reports[id]
            /\ (ids = {} => reports' = reports)]_vars

\* a report with one cleared vote was resolved by the override, the other
\* stored report, not listed, is unresolved with its two votes
C31_Witness ==
    /\ DOMAIN reports = EngineIds
    /\ \E id \in EngineIds, other \in EngineIds :
         /\ reports[id].resolved
         /\ reports[id].clearedCount = 1
         /\ Len(clearedLedger(reports[id])) = 1
         /\ reports[id].syncStatus = Some("pending")
         /\ ~reports[other].resolved
         /\ reports[other].clearedCount = 2

----------------------------------------------------------------------------
(* C32. toggleFlagged and toggleNoGlassFound each negate their own flag    *)
(* (an absent flag counting as false) and write lastModified and           *)
(* syncStatus; no other field of the report and no other report changes:   *)
(* not the other flag, the ledgers, the counts, resolved or archived. The  *)
(* same toggle applied again returns the flag to its value before the      *)
(* first.                                                                  *)

\* the step changes, of the report id, at most the flag and the two stamps
OnlyFlagChanged(id, flag) ==
    /\ DOMAIN reports' = DOMAIN reports
    /\ \A other \in DOMAIN reports \ {id} : reports'[other] = reports[other]
    /\ \A f \in DOMAIN reports[id] \ {flag, "lastModified", "syncStatus"} :
          reports'[id][f] = reports[id][f]
    /\ reports'[id][flag] = Some(~Nullish(reports[id][flag], FALSE))
    /\ reports'[id].syncStatus = Some("pending")

C32_TogglesNegateOwnFlag ==
    [][\A id \in DOMAIN reports :
         /\ toggleFlagged(id)
            => /\ OnlyFlagChanged(id, "flagged")
               /\ toggleFlaggedResult(reports', id) = Nullish(reports[id].flagged, FALSE)
         /\ toggleNoGlassFound(id)
            => /\ OnlyFlagChanged(id, "noGlassFound")
               /\ toggleNoGlassFoundResult(reports', id)
                    = Nullish(reports[id].noGlassFound, FALSE)]_vars

\* a report resolved and archived after a vote had one flag toggled twice and
\* the other once
C32_Witness ==
    \E id \in DOMAIN reports :
        /\ reports[id].flagged = Some(FALSE)
        /\ reports[id].noGlassFound = Some(TRUE)
        /\ reports[id].resolved
        /\ reports[id].archived = Some(TRUE)
        /\ reports[id].clearedCount = 1

----------------------------------------------------------------------------
(* C33. As claimed: an accepted still-there vote resets the cleared        *)
(* progress of a report (its cleared ledger and count) only when           *)
(* still-there confirmations of at least two distinct devices are then on  *)
(* the report; confirmations of one device alone, made more than 24 hours  *)
(* apart, never reset it.                                                  *)

C33_ResetNeedsTwoDevices ==
    [][\A id \in Ids, d \in Devices :
         (/\ StillThereAccepted(id, d)
          /\ reports[id].clearedCount # 0 \/ clearedLedger(reports[id]) # <<>>
          /\ reports'[id].clearedCount = 0
          /\ clearedLedger(reports'[id]) = <<>>)
         => Cardinality(StillThereDevices(reports'[id])) >= 2]_vars

----------------------------------------------------------------------------
(* C38. The alert latch is set exactly when the in-range set is not empty: *)
(* at mount, after every processed fix and after every disable, whatever   *)
(* happened to the reports in between.                                     *)

C38_LatchIffInRange ==
    hasTriggeredAlert <=> (previouslyInProximity # {})

\* after a processed fix the latch is set while one of two stored candidate
\* reports is in range and the other, between the radii, is not
C38_Witness ==
    /\ userLocation # None
    /\ hasTriggeredAlert
    /\ Cardinality(previouslyInProximity) = 1
    /\ Candidates = EngineIds
    /\ \E id \in Candidates \ previouslyInProximity :
          DistanceTo(userLocation[1], id) = 5

----------------------------------------------------------------------------
(* C39. A pull/merge removes no record from the local store: every id      *)
(* stored before a fullSync or the merge of a notification is stored       *)
(* after it, also when the remote snapshot lacks it; and every id of the   *)
(* remote snapshot is stored after it, a report deleted locally that still *)
(* has its document included.                                              *)

C39_MergeRemovesNothing ==
    [][((\E failed \in SUBSET EngineIds : fullSync(failed)) \/ (online /\ realtimeCallback))
         => /\ DOMAIN reports \subseteq DOMAIN reports'
            /\ DOMAIN remote \subseteq DOMAIN reports']_vars

\* one report is stored that has no document; the other one is stored as a
\* merge took it from its document, which holds the vote this device cast and
\* pushed a day before
C39_Witness ==
    /\ DOMAIN reports = EngineIds
    /\ \E id \in EngineIds, other \in EngineIds :
          /\ id \notin DOMAIN remote
          /\ other \in DOMAIN remote
          /\ reports[other].syncStatus = Some("synced")
          /\ reports[other].noGlassFound = None
          /\ reports[other].firebaseId = Some(other)
          /\ ClearedDevices(reports[other]) = {LocalDevice}
          /\ reports[other].lastModified = Some(remote[other].updatedAt)
          /\ reports[other].lastModified[1]
                > getTime(clearedLedger(reports[other])[1].timestamp)

----------------------------------------------------------------------------
(* C40. The cleanup function of initializeSync, also when the page runs it *)
(* at unmount, leaves no subscription to remote changes and no online or   *)
(* offline listener registered; whenever the detector is disabled or the   *)
(* page unmounted no geolocation watch is registered; and at most one      *)
(* geolocation watch is registered at any time.                            *)

C40_ResourcesReleased ==
    [][/\ (cleanup \/ unmount) => (~handlers' /\ ~listening')
       /\ (~enabled' \/ ~mounted') => watches' = {}
       /\ Cardinality(watches') <= 1
       /\ enabled' /\ mounted' => watches' = {watchIdRef'[1]}]_vars

\* the page is unmounted, the alerts being on, after a session whose
\* fullSync pushed a report: nothing is registered
C40_Witness ==
    /\ ~mounted
    /\ ~handlers /\ ~listening
    /\ watches = {}
    /\ watchIdRef = None
    /\ enabled
    /\ DOMAIN remote # {}

----------------------------------------------------------------------------
(* C34. As claimed: when a push marks a record as synced, the document it  *)
(* wrote for the record is the document of the record as it is stored      *)
(* then; a record changed locally after the push read it is pending after  *)
(* the push.                                                               *)

C34_SyncedOnlyIfWritten ==
    [][syncPendingMark =>
         \A id \in pushTask[1].syncedIds[1] \cap DOMAIN reports :
            /\ reports'[id].syncStatus = Some("synced")
               => toRealtimeDbReport(pushTask[1].pendingReports[id], 0)
                    = toRealtimeDbReport(reports'[id], 0)
            /\ reports[id] # pushTask[1].pendingReports[id]
               => reports'[id].syncStatus = Some("pending")]_vars

----------------------------------------------------------------------------
(* C35. As claimed: when a pull/merge (fullSync or the notification        *)
(* callback) writes back, a record the client changed or added after the   *)
(* merge read the local records keeps that change in the store, unless the *)
(* remote record the merge read has a greater lastModified than the        *)
(* changed record.                                                         *)

C35_MergeKeepsLaterMutation ==
    [][(callbackWrite \/ \E failed \in SUBSET Ids : fullSyncWrite(failed)) =>
         \A id \in DOMAIN reports :
            LET read == mergeTask[1].localReports
                fetched == mergeTask[1].remoteReports
                mutated == \/ id \notin DOMAIN read
                           \/ ReportFields(reports[id]) # ReportFields(read[id])
                remoteNewer == /\ id \in DOMAIN fetched
                               /\ Nullish(fetched[id].lastModified, 0)
                                    > Nullish(reports[id].lastModified, 0)
            IN  (mutated /\ ~remoteNewer)
                => ReportFields(reports'[id]) = ReportFields(reports[id])]_vars

----------------------------------------------------------------------------
(* C36. As claimed: once all the calls of incrementClearedCount on a store *)
(* have returned, whatever their interleaving, the device of every call    *)
(* that returned success = true is in the cleared ledger of its report,    *)
(* and no two calls for the same report and device returned success.       *)

C36_SuccessfulCastsAreRecorded ==
    (\A k \in Calls : castTasks[k].pc = "done") =>
       /\ \A k \in Calls :
             castTasks[k].result.success =>
                /\ castTasks[k].id \in DOMAIN reports
                /\ castTasks[k].deviceId \in ClearedDevices(reports[castTasks[k].id])
       /\ \A k1 \in Calls : \A k2 \in Calls \ {k1} :
             (castTasks[k1].result.success /\ castTasks[k2].result.success
              /\ castTasks[k1].id = castTasks[k2].id)
             => castTasks[k1].deviceId # castTasks[k2].deviceId

----------------------------------------------------------------------------
(* C37. As claimed: when three devices have each cast an accepted cleared  *)
(* vote for a report on their own client, online or offline, and the       *)
(* clients have synced until nothing changes any more, the report has the  *)
(* confirmations of the three devices and is resolved on this client and   *)
(* in the copy the other clients read from the remote store.               *)

\* the devices whose accepted vote for the report was thanked for
Voters(id) == {d \in Devices : <<id, d>> \in thanked}

C37_ThreeVotesResolveEverywhere ==
    \A id \in Ids :
       (Quiescent /\ Cardinality(Voters(id)) >= 3) =>
          /\ id \in DOMAIN reports
          /\ Voters(id) \subseteq ClearedDevices(reports[id])
          /\ reports[id].resolved
          /\ id \in DOMAIN remote
          /\ Voters(id) \subseteq ClearedDevices(fromRealtimeDbReport(remote[id], id))
          /\ remote[id].resolved

====
